---- MODULE Spec2Model ----
(***************************************************************************)
(* Session registry, default-session synchronisation and the bus client   *)
(* of ovos-bus-client.                                                     *)
(*                                                                         *)
(* Python objects live in a per-process heap (reference -> fields), so     *)
(* that "is the very same object" is equality of references.  Python      *)
(* dicts are functions whose DOMAIN is the set of keys that are present.   *)
(* None is modelled by the falsy value of the type concerned ("" for a     *)
(* string, << >> for a list, 0 for an int): every place that receives      *)
(* such a value in session.py tests it with `or`, which treats both alike. *)
(***************************************************************************)
EXTENDS Integers, Sequences, FiniteSets, TLC

(* ------------------------------ bounds -------------------------------- *)
MaxObj == 2        \* Session objects alive at once in one process
MaxTime == 1       \* clock ticks (seconds)
MaxQueue == 1      \* length of every queue (socket, emitter, inbox)

(* ------------------------------ domains ------------------------------- *)
Procs == {"A", "B"}
Refs == 1..MaxObj
NoRef == 0
Skills == {"sk1"}
NoMsg == <<>>

(* ------------------------- dict and `or` helpers ---------------------- *)
Has(d, k) == k \in DOMAIN d
Get(d, k, dflt) == IF k \in DOMAIN d THEN d[k] ELSE dflt
Put(d, k, v) == [x \in (DOMAIN d) \cup {k} |-> IF x = k THEN v ELSE d[x]]
Del(d, k) == [x \in (DOMAIN d) \ {k} |-> d[x]]
Range(f) == {f[x] : x \in DOMAIN f}
EmptyDict == <<>>

OrStr(a, b) == IF a = "" THEN b ELSE a
OrSeq(a, b) == IF a = <<>> THEN b ELSE a
OrInt(a, b) == IF a = 0 THEN b ELSE a

(* --------------------------- configuration ---------------------------- *)
\* Configuration() as read by Session.__init__: session.ttl,
\* skills.blacklisted_skills and the default language.
Configs ==
  { [ttl |-> -1, blacklisted_skills |-> <<>>, lang |-> "en-US"],
    [ttl |-> 0, blacklisted_skills |-> <<"bad">>, lang |-> "en-US"] }

standardize_lang_tag(l) == IF l = "en-us" THEN "en-US" ELSE l

(* ------------------------------ Session ------------------------------- *)
\* Session.__init__ ; c is the process configuration, t the clock and
\* uuid the value str(uuid4()) would return.
Session(session_id, expiration_seconds, active_skills, utterance_states, lang, is_speaking, blacklisted_skills, c, t, uuid) ==
  [ session_id |-> OrStr(session_id, uuid),
    blacklisted_skills |-> OrSeq(blacklisted_skills, c.blacklisted_skills),
    lang |-> standardize_lang_tag(OrStr(lang, c.lang)),
    is_speaking |-> is_speaking,
    active_skills |-> active_skills,
    utterance_states |-> utterance_states,
    touch_time |-> t,
    expiration_seconds |-> OrInt(expiration_seconds, c.ttl) ]

\* expired that counts the last second of the ttl as over
expired_at_limit(s, t) ==
  IF s.expiration_seconds < 0 THEN FALSE
  ELSE t - s.touch_time >= s.expiration_seconds

\* Session.expired
expired(s, t) ==
  IF s.expiration_seconds < 0 THEN FALSE
  ELSE t - s.touch_time > s.expiration_seconds

\* Session.serialize
serialize(s) ==
  [ active_skills |-> s.active_skills,
    utterance_states |-> s.utterance_states,
    session_id |-> s.session_id,
    lang |-> s.lang,
    is_speaking |-> s.is_speaking,
    blacklisted_skills |-> s.blacklisted_skills ]

\* Session.deserialize
deserialize(data, c, t, uuid) ==
  Session(Get(data, "session_id", ""),
          0,
          Get(data, "active_skills", <<>>),
          Get(data, "utterance_states", EmptyDict),
          Get(data, "lang", ""),
          Get(data, "is_speaking", FALSE),
          Get(data, "blacklisted_skills", <<>>),
          c, t, uuid)

(* ------------------------------ Message ------------------------------- *)
\* Message.__init__
Message(msg_type, data, context) ==
  [msg_type |-> msg_type, data |-> data, context |-> context]

\* Message.serialize (no secret key configured): the JSON frame
Message_serialize(m) ==
  [type |-> m.msg_type, data |-> m.data, context |-> m.context]

\* Message.deserialize (no secret key configured)
Message_deserialize(frame) ==
  Message(Get(frame, "type", ""),
          Get(frame, "data", EmptyDict),
          Get(frame, "context", EmptyDict))

\* reply that never exchanges source and destination
reply_no_swap(m, msg_type, data, context) ==
  LET c1 == [k \in (DOMAIN m.context) \cup (DOMAIN context) |->
               IF k \in DOMAIN context THEN context[k] ELSE m.context[k]]
      c2 == IF Has(data, "destination")
            THEN Put(c1, "destination", data["destination"]) ELSE c1
  IN Message(msg_type, data, c2)

\* reply that exchanges source and destination before it reads
\* data["destination"]
reply_swap_first(m, msg_type, data, context) ==
  LET c1 == [k \in (DOMAIN m.context) \cup (DOMAIN context) |->
               IF k \in DOMAIN context THEN context[k] ELSE m.context[k]]
      c2 == IF Has(c1, "source") /\ Has(c1, "destination")
            THEN [c1 EXCEPT !["destination"] = c1["source"],
                            !["source"] = c1["destination"]]
            ELSE c1
      c3 == IF Has(data, "destination")
            THEN Put(c2, "destination", data["destination"]) ELSE c2
  IN Message(msg_type, data, c3)

\* Message.reply
reply(m, msg_type, data, context) ==
  LET c1 == [k \in (DOMAIN m.context) \cup (DOMAIN context) |->
               IF k \in DOMAIN context THEN context[k] ELSE m.context[k]]
      c2 == IF Has(data, "destination")
            THEN Put(c1, "destination", data["destination"]) ELSE c1
      c3 == IF Has(c2, "source") /\ Has(c2, "destination")
            THEN [c2 EXCEPT !["destination"] = c2["source"],
                            !["source"] = c2["destination"]]
            ELSE c2
  IN Message(msg_type, data, c3)


\* Message.forward: the context is the original's
forward(m, msg_type, data) ==
  Message(msg_type, data, m.context)

\* Message.response
response(m, data, context) ==
  reply(m, m.msg_type \o ".response", data, context)

\* publish that leaves "target" in the context
publish_keep_target(m, msg_type, data, context) ==
  Message(msg_type, data,
          [k \in (DOMAIN m.context) \cup (DOMAIN context) |->
             IF k \in DOMAIN context THEN context[k] ELSE m.context[k]])

\* Message.publish
publish(m, msg_type, data, context) ==
  LET c1 == [k \in (DOMAIN m.context) \cup (DOMAIN context) |->
               IF k \in DOMAIN context THEN context[k] ELSE m.context[k]]
  IN Message(msg_type, data, Del(c1, "target"))

(* ------------------------ Message on the wire ------------------------- *)
\* a str: the JSON text of obj (orjson.dumps), of a JSON value that is not
\* an object, or text that is not JSON at all
orjson_dumps(obj) == [wellformed |-> TRUE, isdict |-> TRUE, obj |-> obj]
JsonList == [wellformed |-> TRUE, isdict |-> FALSE, obj |-> EmptyDict]
NotJson == [wellformed |-> FALSE, isdict |-> FALSE, obj |-> EmptyDict]

\* an exception leaves the call
Raised(e) == [raised |-> e, isdict |-> FALSE, obj |-> EmptyDict]
\* the call returns obj, a dict or (isdict false) a str
Returned(isdict, obj) == [raised |-> "", isdict |-> isdict, obj |-> obj]

\* orjson.loads
orjson_loads(value) ==
  IF value.wellformed THEN Returned(value.isdict, value.obj)
  ELSE Raised("JSONDecodeError")

\* encrypt_as_dict: the ciphertext stands for the text under the key, the
\* tag authenticates it
encrypt_as_dict(key, data) ==
  [ciphertext |-> [key |-> key, plain |-> data], tag |-> "mac", nonce |-> "n"]

\* decrypt_from_dict: the decrypted text, a str, when key and tag verify
decrypt_from_dict(key, data) ==
  IF ~Has(data, "nonce") THEN Raised("KeyError")
  ELSE IF Has(data, "tag") /\ data["tag"] = "mac"
          /\ data["ciphertext"].key = key
  THEN Returned(FALSE, data["ciphertext"].plain)
  ELSE Raised("ValueError")

\* Message._json_load for a str value under the websocket configuration ws
json_load(value, ws) ==
  LET loaded == orjson_loads(value)
  IN IF loaded.raised # "" THEN loaded
     ELSE IF ~loaded.isdict THEN Raised("AssertionError")
     ELSE IF ws.secret_key # "" /\ Has(loaded.obj, "ciphertext")
     THEN decrypt_from_dict(ws.secret_key, loaded.obj)
     ELSE IF ws.secret_key # "" /\ ~ws.allow_unencrypted
     THEN Raised("RuntimeError")
     ELSE loaded

\* Message.serialize under the websocket configuration ws: a str
serialize_str(m, ws) ==
  LET msg == orjson_dumps(Message_serialize(m))
  IN IF ws.secret_key # ""
     THEN orjson_dumps(encrypt_as_dict(ws.secret_key, msg))
     ELSE msg

\* Message.deserialize of a str under ws: the Message, or the exception;
\* obj.get is an attribute of dict only
deserialize_str(value, ws) ==
  LET obj == json_load(value, ws)
  IN IF obj.raised # "" THEN [raised |-> obj.raised, message |-> NoMsg]
     ELSE IF ~obj.isdict THEN [raised |-> "AttributeError", message |-> NoMsg]
     ELSE [raised |-> "", message |-> <<Message_deserialize(obj.obj)>>]

(* ------------------------ IntentContextManager ------------------------ *)
\* None as the value of a metadata key; every other value is a string
None == "<None>"

\* IntentContextManagerFrame.__init__
IntentContextManagerFrame(entities, metadata) ==
  [entities |-> entities, metadata |-> metadata]

\* IntentContextManager.__init__ with timeout and frame_stack given; the
\* stack is a list of (frame, timestamp), newest first
IntentContextManager(timeout, frame_stack) ==
  [timeout |-> timeout, frame_stack |-> frame_stack]

\* IntentContextManager() : context.timeout of the configuration is two
\* minutes
NewContext == IntentContextManager(120, <<>>)

\* IntentContextManager.serialize
context_serialize(cm) ==
  [timeout |-> cm.timeout,
   frame_stack |-> [i \in DOMAIN cm.frame_stack |->
                      <<[entities |-> cm.frame_stack[i][1].entities,
                         metadata |-> cm.frame_stack[i][1].metadata],
                        cm.frame_stack[i][2]>>]]

\* IntentContextManager.deserialize
context_deserialize(data) ==
  LET stack == Get(data, "frame_stack", <<>>)
  IN IntentContextManager(
       Get(data, "timeout", 120),
       [i \in DOMAIN stack |->
          <<IntentContextManagerFrame(Get(stack[i][1], "entities", <<>>),
                                      Get(stack[i][1], "metadata", EmptyDict)),
            stack[i][2]>>])

\* IntentContextManagerFrame.metadata_matches: dict.get gives None for a
\* key the frame does not have
metadata_matches(frame, query) ==
  /\ DOMAIN query # {}
  /\ \A key \in DOMAIN query : query[key] = Get(frame.metadata, key, None)

\* IntentContextManagerFrame.merge_context
merge_context(frame, tag, metadata) ==
  [entities |-> Append(frame.entities, tag),
   metadata |-> [k \in (DOMAIN frame.metadata) \cup (DOMAIN metadata) |->
                   IF k \in DOMAIN frame.metadata THEN frame.metadata[k]
                   ELSE metadata[k]]]

\* IntentContextManager.inject_context at time t
inject_context(cm, entity, metadata, t) ==
  IF cm.frame_stack # <<>> /\ metadata_matches(cm.frame_stack[1][1], metadata)
  THEN [cm EXCEPT !.frame_stack[1][1] = merge_context(@, entity, metadata)]
  ELSE [cm EXCEPT !.frame_stack =
          << <<IntentContextManagerFrame(<<entity>>, metadata), t>> >> \o @]

\* the subsequence of seq at the indices that satisfy Keep
RECURSIVE SelectIdx(_, _, _)
SelectIdx(seq, keep, i) ==
  IF i > Len(seq) THEN <<>>
  ELSE (IF i \in keep THEN <<seq[i]>> ELSE <<>>) \o SelectIdx(seq, keep, i + 1)

\* a in b for the strs of the model
Substring(a, b) == a = b \/ <<a, b>> \in {<<"col", "color">>}

\* `context_id in entity.get('data', [])` for a data that is a str
\* (substring) or a list of (value, tag) pairs (membership: a str is never
\* equal to a pair)
data_contains(entity, context_id) ==
  /\ Has(entity, "data")
  /\ Has(entity["data"], "str")
  /\ Substring(context_id, entity["data"]["str"])

\* IntentContextManager.remove_context
remove_context(cm, context_id) ==
  LET keep == {i \in DOMAIN cm.frame_stack :
                 data_contains(cm.frame_stack[i][1].entities[1], context_id)}
  IN [cm EXCEPT !.frame_stack = SelectIdx(cm.frame_stack, keep, 1)]


\* the loop of get_context with a depth that starts again at 0 when the
\* origin stays the same
RECURSIVE CollectFrames_depth_restarts(_, _, _, _, _, _, _)
CollectFrames_depth_restarts(relevant, max_frames, i, context, last, depth, entity) ==
  IF i > max_frames THEN [raised |-> "", ret |-> context]
  ELSE LET ents == relevant[i].entities
           frame_entities ==
             [j \in DOMAIN ents |->
                Put(ents[j], "confidence",
                    [value |-> Get(ents[j], "confidence", 1), over |-> 2 + depth])]
           e == IF frame_entities = <<>> THEN entity
                ELSE frame_entities[Len(frame_entities)]
       IN IF ~Has(e, "origin") THEN [raised |-> "KeyError", ret |-> <<>>]
          ELSE CollectFrames_depth_restarts(relevant, max_frames, i + 1,
                             context \o frame_entities, e["origin"],
                             IF e["origin"] # last \/ e["origin"] = ""
                             THEN depth + 1 ELSE 0,
                             e)

\* the loop of get_context over the first max_frames relevant frames, from
\* frame i on: context is the list collected so far, entity the loop
\* variable of the inner loop, which the depth update reads
RECURSIVE CollectFrames(_, _, _, _, _, _, _)
CollectFrames(relevant, max_frames, i, context, last, depth, entity) ==
  IF i > max_frames THEN [raised |-> "", ret |-> context]
  ELSE LET ents == relevant[i].entities
           frame_entities ==
             [j \in DOMAIN ents |->
                Put(ents[j], "confidence",
                    [value |-> Get(ents[j], "confidence", 1), over |-> 2 + depth])]
           e == IF frame_entities = <<>> THEN entity
                ELSE frame_entities[Len(frame_entities)]
       IN IF ~Has(e, "origin") THEN [raised |-> "KeyError", ret |-> <<>>]
          ELSE CollectFrames(relevant, max_frames, i + 1,
                             context \o frame_entities, e["origin"],
                             IF e["origin"] # last \/ e["origin"] = ""
                             THEN depth + 1 ELSE depth,
                             e)

\* entity.get('data') in missing_entities, a list of str: a data that is a
\* list, or None, is equal to no str
data_in(entity, missing_entities) ==
  /\ Has(entity, "data")
  /\ Has(entity["data"], "str")
  /\ \E j \in DOMAIN missing_entities : missing_entities[j] = entity["data"]["str"]

\* list.remove(x) for an x that is in the list
Remove(seq, x) ==
  LET idx == CHOOSE i \in DOMAIN seq : seq[i] = x /\ \A j \in 1..(i - 1) : seq[j] # x
  IN SelectIdx(seq, (DOMAIN seq) \ {idx}, 1)

\* the loop of get_context over context when missing_entities is given
RECURSIVE PickMissing(_, _, _)
PickMissing(context, i, missing_entities) ==
  IF i > Len(context) THEN <<>>
  ELSE IF data_in(context[i], missing_entities)
       THEN <<context[i]>> \o PickMissing(context, i + 1,
                                Remove(missing_entities, context[i]["data"]["str"]))
       ELSE PickMissing(context, i + 1, missing_entities)

\* feature['data'][0][1] : "" with the exception when it raises
keyword(feature) ==
  IF ~Has(feature, "data") THEN [raised |-> "KeyError", ret |-> ""]
  ELSE IF Has(feature["data"], "str") THEN [raised |-> "IndexError", ret |-> ""]
  ELSE IF feature["data"]["list"] = <<>> THEN [raised |-> "IndexError", ret |-> ""]
  ELSE [raised |-> "", ret |-> feature["data"]["list"][1][2]]

\* IntentContextManager._strip_result from feature i on
RECURSIVE strip_result(_, _, _, _)
strip_result(context_features, i, stripped, processed) ==
  IF i > Len(context_features) THEN [raised |-> "", ret |-> stripped]
  ELSE LET kw == keyword(context_features[i])
       IN IF kw.raised # "" THEN [raised |-> kw.raised, ret |-> <<>>]
          ELSE IF kw.ret \notin processed
               THEN strip_result(context_features, i + 1,
                                 Append(stripped, context_features[i]),
                                 processed \cup {kw.ret})
               ELSE strip_result(context_features, i + 1, stripped, processed)

\* IntentContextManager.get_context at time t; max_frames is 0 for None
get_context(cm, max_frames, missing_entities, t) ==
  LET fresh == {i \in DOMAIN cm.frame_stack : t - cm.frame_stack[i][2] < cm.timeout}
      stack == SelectIdx(cm.frame_stack, fresh, 1)
      relevant_frames == [i \in DOMAIN stack |-> stack[i][1]]
      n == IF max_frames = 0 \/ max_frames > Len(relevant_frames)
           THEN Len(relevant_frames) ELSE max_frames
      collected == CollectFrames(relevant_frames, n, 1, <<>>, "", 0, EmptyDict)
      result == IF missing_entities # <<>>
                THEN PickMissing(collected.ret, 1, missing_entities)
                ELSE collected.ret
  IN IF collected.raised # "" THEN collected
     ELSE strip_result(result, 1, <<>>, {})

\* get_context that divides the confidence of the stored entities, not of
\* copies
get_context_after_no_copy(cm, max_frames, t) ==
  [cm EXCEPT !.frame_stack =
     [i \in DOMAIN cm.frame_stack |->
        IF t - cm.frame_stack[i][2] < cm.timeout
        THEN <<[cm.frame_stack[i][1] EXCEPT !.entities =
                  [j \in DOMAIN @ |-> Put(@[j], "confidence", [value |-> Get(@[j], "confidence", 1), over |-> 2])]],
               cm.frame_stack[i][2]>>
        ELSE cm.frame_stack[i]]]

\* the manager after get_context: relevant_frames is a new list, the loop
\* changes entity.copy(), missing_entities is list(missing_entities)
get_context_after(cm, max_frames, t) ==
  cm

(* ----------------------- Session: the data model ---------------------- *)
\* the pipeline of Session.__init__ when neither the caller nor the
\* configuration gives one
DefaultPipeline == <<"stop_high", "converse", "padatious_high", "adapt_high", "fallback_high", "stop_medium", "padatious_medium", "adapt_medium", "adapt_low", "common_qa", "fallback_medium", "fallback_low">>

\* Session.__init__ with the fields of the data model: context is << >>
\* for None, the configuration has no site_id and no pipeline
Session_init(session_id, expiration_seconds, active_skills, utterance_states, lang, context, site_id, pipeline, is_speaking, blacklisted_skills, c, t, uuid) ==
  Session(session_id, expiration_seconds, active_skills, utterance_states,
          lang, is_speaking, blacklisted_skills, c, t, uuid)
    @@ [context |-> IF context = <<>> THEN NewContext ELSE context,
        site_id |-> OrStr(site_id, "unknown"),
        pipeline |-> OrSeq(pipeline, DefaultPipeline)]

\* Session.serialize with context, site_id and pipeline
Session_serialize(s) ==
  serialize(s) @@ [context |-> context_serialize(s.context),
                   site_id |-> s.site_id,
                   pipeline |-> s.pipeline]

\* Session.deserialize that takes the default pipeline whatever the data
Session_deserialize_default_pipeline(data, c, t, uuid) ==
  Session_init(Get(data, "session_id", ""), 0,
               OrSeq(Get(data, "active_skills", <<>>), <<>>),
               Get(data, "utterance_states", EmptyDict),
               Get(data, "lang", ""),
               context_deserialize(Get(data, "context", EmptyDict)),
               Get(data, "site_id", "unknown"),
               <<>>,
               Get(data, "is_speaking", FALSE),
               Get(data, "blacklisted_skills", <<>>),
               c, t, uuid)

\* Session.deserialize with context, site_id and pipeline: the call of
\* Session(...) passes no expiration_seconds
Session_deserialize(data, c, t, uuid) ==
  Session_init(Get(data, "session_id", ""), 0,
               OrSeq(Get(data, "active_skills", <<>>), <<>>),
               Get(data, "utterance_states", EmptyDict),
               Get(data, "lang", ""),
               context_deserialize(Get(data, "context", EmptyDict)),
               Get(data, "site_id", "unknown"),
               Get(data, "pipeline", <<>>),
               Get(data, "is_speaking", FALSE),
               Get(data, "blacklisted_skills", <<>>),
               c, t, uuid)

(* ------------------------------- state -------------------------------- *)
VARIABLES
  cfg,               \* [Procs -> Configs]: Configuration() of each process
  now,               \* int(time.time())
  heap,              \* [Procs -> [live Refs -> Session fields]]
  sessions,          \* SessionManager.sessions: id -> Ref, per process
  default_session,   \* SessionManager.default_session: Ref, per process
  bus,               \* SessionManager.bus is set (connect_to_bus was called)
  client_session_id, \* MessageBusClient.session_id
  held,              \* the Session a caller got back and still holds
  rx,                \* on_message: parsed message between update and emit
  dispatch,          \* emitter: handler calls submitted to the executor
  sent,              \* frames handed to client.send, not yet transmitted
  inbox,             \* frames the websocket has received for the client
  connected,         \* MessageBusClient.connected_event is set
  thr,               \* application threads inside update / reset_default_session
  lock,              \* the holder of SessionManager.__lock, "" when free
  mem,               \* Message objects of a caller and the dicts they point to
  websocket,         \* Message._secret_key and Message._allow_unencrypted
  io,                \* the value last given to a pure function, its outcome
  started_running,   \* MessageBusClient.started_running
  listeners,         \* handlers registered on the emitter by waiting callers
  waits,             \* callers inside a wait_* call
  lastOp, lastArg    \* the last call made: its name, the session id it was given

vars == <<cfg, now, heap, sessions, default_session, bus, client_session_id,
          held, rx, dispatch, sent, inbox, connected, thr, lock,
          mem, websocket, io, started_running, listeners, waits,
          lastOp, lastArg>>

\* the state of callers that the registry and the client do not touch
aux == <<mem, websocket, io, started_running, listeners, waits>>

NoHeld == [ref |-> NoRef, msg_default |-> FALSE]

\* no Message object is held
NoMem == [m |-> <<>>, m2 |-> <<>>, ctx |-> <<>>, sd |-> <<>>]
\* websocket.secret_key is not configured: allow_unencrypted defaults to
\* `_secret_key is None`
NoSecret == [secret_key |-> "", allow_unencrypted |-> TRUE]
\* Message.deserialize has not been called
NoIO == [value |-> <<>>, result |-> <<>>]
\* a thread that is in no wait_* call
NoWait == [pc |-> "idle", op |-> "", sessid |-> "", event |-> FALSE]

\* threads of process A that call into the registry, and a thread that is
\* in no call
Threads == {"t1", "t2"}
Idle == [pc |-> "idle", sess |-> NoRef, make_default |-> FALSE]

\* The SessionManager class attributes of process p, with the heap they
\* point into.
SM(p) == [heap |-> heap[p], sessions |-> sessions[p],
          default_session |-> default_session[p]]

Restrict(f, S) == [x \in (DOMAIN f) \cap S |-> f[x]]

\* Objects still referenced: unreferenced ones are garbage collected.
Live(sm, extra) ==
  ({sm.default_session} \cup Range(sm.sessions) \cup extra) \ {NoRef}

\* id() of the next object created
NewRef(h) == CHOOSE r \in Refs \ DOMAIN h : \A q \in Refs \ DOMAIN h : r <= q
CanAlloc(h) == Refs \ DOMAIN h # {}

\* str(uuid4()): an id no session of the process uses
UuidSeq == <<"u1", "u2">>
UuidFree(sm) ==
  {i \in DOMAIN UuidSeq :
     /\ UuidSeq[i] \notin DOMAIN sm.sessions
     /\ \A r \in DOMAIN sm.heap : sm.heap[r].session_id # UuidSeq[i]}
uuid4(sm) ==
  IF UuidFree(sm) = {} THEN "u0"
  ELSE UuidSeq[CHOOSE i \in UuidFree(sm) : \A j \in UuidFree(sm) : i <= j]
\* a Session can be built: memory left, and an id left when none is given
CanBuild(sm, sid) == CanAlloc(sm.heap) /\ (sid = "" => UuidFree(sm) # {})

(* --------------------------- SessionManager --------------------------- *)
\* update that installs the default only on make_default
update_only_make_default(sm, r, make_default) ==
  LET h1 == IF make_default
            THEN [sm.heap EXCEPT ![r].session_id = "default"]
            ELSE sm.heap
      d1 == IF make_default THEN r ELSE sm.default_session
  IN [heap |-> h1,
      sessions |-> Put(sm.sessions, h1[r].session_id, r),
      default_session |-> d1]

\* update that installs the default without renaming the session
update_no_rename(sm, r, make_default) ==
  LET d1 == IF make_default \/ sm.heap[r].session_id = "default"
            THEN r ELSE sm.default_session
  IN [heap |-> sm.heap,
      sessions |-> Put(sm.sessions, sm.heap[r].session_id, r),
      default_session |-> d1]

\* SessionManager.update (raises ValueError for None: callers guard r)
update(sm, r, make_default) ==
  LET h1 == IF make_default
            THEN [sm.heap EXCEPT ![r].session_id = "default"]
            ELSE sm.heap
      d1 == IF h1[r].session_id = "default" THEN r ELSE sm.default_session
  IN [heap |-> h1,
      sessions |-> Put(sm.sessions, h1[r].session_id, r),
      default_session |-> d1]

\* touch that leaves touch_time as it was
touch_keeps_time(sm, r, t) ==
  update(sm, r, FALSE)

\* Session.touch
touch(sm, r, t) ==
  update([sm EXCEPT !.heap[r].touch_time = t], r, FALSE)

\* Session.enable_response_mode
enable_response_mode(sm, r, skill_id, t) ==
  touch([sm EXCEPT !.heap[r].utterance_states = Put(@, skill_id, "response")],
        r, t)

\* Session.disable_response_mode
disable_response_mode(sm, r, skill_id, t) ==
  touch([sm EXCEPT !.heap[r].utterance_states = Put(@, skill_id, "intent")],
        r, t)

\* list.pop(idx)
Pop(seq, idx) == [i \in 1..(Len(seq) - 1) |->
                    IF i < idx THEN seq[i] ELSE seq[i + 1]]

\* Session.deactivate_skill
deactivate_skill(sm, r, skill_id, t) ==
  LET act == sm.heap[r].active_skills
      hit == {i \in DOMAIN act : act[i][1] = skill_id}
      idx == CHOOSE i \in hit : \A j \in hit : i <= j
      sm1 == IF hit # {}
             THEN [sm EXCEPT !.heap[r].active_skills = Pop(act, idx)]
             ELSE sm
  IN touch(sm1, r, t)

\* Session.is_active
is_active(s, skill_id) ==
  \E i \in DOMAIN s.active_skills : s.active_skills[i][1] = skill_id

\* activate_skill that does not remove the skill first
activate_skill_no_dedupe(sm, r, skill_id, t) ==
  touch([sm EXCEPT !.heap[r].active_skills = <<<<skill_id, t>>>> \o @], r, t)

\* Session.activate_skill
activate_skill(sm, r, skill_id, t) ==
  LET sm1 == deactivate_skill(sm, r, skill_id, t)
  IN touch([sm1 EXCEPT !.heap[r].active_skills = <<<<skill_id, t>>>> \o @],
           r, t)

\* Session.clear
clear(sm, r, t) ==
  touch([sm EXCEPT !.heap[r].active_skills = <<>>], r, t)

\* Session.from_message, for a message whose context has a "session" key:
\* the dict that is deserialized, after `sess["lang"] = lang`
from_message_dict(m) ==
  LET lang == OrStr(Get(m.context, "lang", ""), Get(m.data, "lang", ""))
      sess == m.context["session"]
  IN IF ~Has(sess, "lang") THEN Put(sess, "lang", lang) ELSE sess

\* the message as from_message leaves it (the dict is changed in place)
from_message_msg(m) ==
  IF Has(m.context, "session")
  THEN [m EXCEPT !.context["session"] = from_message_dict(m)]
  ELSE m

\* Session.from_message: mo is << >> (no message passed and none found on
\* the stack by dig_for_message) or <<m>>.  Returns the new state of the
\* heap and the reference of the Session returned.
from_message(sm, mo, c, t) ==
  IF mo # NoMsg /\ Has(mo[1].context, "session")
  THEN LET r == NewRef(sm.heap)
           s == deserialize(from_message_dict(mo[1]), c, t, uuid4(sm))
       IN [sm |-> [sm EXCEPT !.heap = Put(sm.heap, r, s)], ret |-> r]
  ELSE [sm |-> sm, ret |-> sm.default_session]

\* from_message can run: it builds a Session only in the first branch
CanFromMessage(sm, mo) ==
  (mo # NoMsg /\ Has(mo[1].context, "session"))
     => CanBuild(sm, Get(mo[1].context["session"], "session_id", ""))

\* get without the test for the reserved id
get_any_id(sm, mo, c, t) ==
  LET sess == sm.default_session
      fm == from_message(sm, mo, c, t)
  IN IF mo # NoMsg
     THEN [sm |-> [fm.sm EXCEPT !.sessions =
                      Put(@, fm.sm.heap[fm.ret].session_id, fm.ret)],
           ret |-> fm.ret]
     ELSE [sm |-> sm, ret |-> sess]

\* SessionManager.get
get(sm, mo, c, t) ==
  LET sess == sm.default_session
      fm == from_message(sm, mo, c, t)
  IN IF mo # NoMsg
     THEN IF fm.sm.heap[fm.ret].session_id # "default"
          THEN [sm |-> [fm.sm EXCEPT !.sessions =
                           Put(@, fm.sm.heap[fm.ret].session_id, fm.ret)],
                ret |-> fm.ret]
          ELSE [sm |-> fm.sm, ret |-> sess]
     ELSE [sm |-> sm, ret |-> sess]

\* `s.expired` without a call is the bound method object: always truthy
expired_attr(s) == TRUE

\* SessionManager.prune_sessions
prune_sessions(sm) ==
  [sm EXCEPT !.sessions =
     Restrict(sm.sessions,
              {sid \in DOMAIN sm.sessions :
                 ~expired_attr(sm.heap[sm.sessions[sid]])})]


\* SessionManager.reset_default_session, up to the call of sync
reset_default_session(sm, c, t) ==
  LET r == NewRef(sm.heap)
      sess == Session("default", 0, <<>>, EmptyDict, "", FALSE, <<>>,
                      c, t, uuid4(sm))
  IN [heap |-> Put(sm.heap, r, sess),
      sessions |-> Put(sm.sessions, "default", r),
      default_session |-> r]

(* --------------------------- MessageBusClient ------------------------- *)
\* emit that always attaches the default session
emit_message_default(sm, sid, m, c, t) ==
  IF ~Has(m.context, "session")
  THEN [m EXCEPT !.context =
          Put(@, "session", serialize(sm.heap[sm.default_session]))]
  ELSE m

\* MessageBusClient.emit, lines 172-175: the message as it is sent
emit_message(sm, sid, m, c, t) ==
  IF ~Has(m.context, "session")
  THEN LET sess == IF sid \in DOMAIN sm.sessions
                   THEN sm.heap[sm.sessions[sid]]
                   ELSE Session(sid, 0, <<>>, EmptyDict, "", FALSE, <<>>,
                                c, t, uuid4(sm))
       IN [m EXCEPT !.context = Put(@, "session", serialize(sess))]
  ELSE m

\* MessageBusClient.emit: the socket's queue after client.send(msg)
emit(q, sm, sid, m, c, t) ==
  Append(q, Message_serialize(emit_message(sm, sid, m, c, t)))

\* SessionManager.sync: the socket's queue after the call; mo is << >> for
\* message=None
sync(q, sm, bound, sid, mo, c, t) ==
  IF bound
  THEN LET message == IF mo = NoMsg
                      THEN Message("ovos.session.sync", EmptyDict, EmptyDict)
                      ELSE mo[1]
       IN emit(q, sm, sid,
               reply(message, "ovos.session.update_default",
                     [session_data |-> serialize(sm.heap[sm.default_session])],
                     EmptyDict),
               c, t)
  ELSE q

\* the event names this client's emitter has a handler for
HasHandler(p, msg_type) ==
  \/ msg_type = "ovos.session.update_default"
  \/ bus[p] /\ msg_type = "ovos.session.sync"

(* ------------------------------ actions ------------------------------- *)
\* install the SessionManager state sm in process p; extra are the
\* references callers keep
SetSM(p, sm, extra) ==
  /\ heap' = [heap EXCEPT ![p] = Restrict(sm.heap, Live(sm, extra))]
  /\ sessions' = [sessions EXCEPT ![p] = sm.sessions]
  /\ default_session' = [default_session EXCEPT ![p] = sm.default_session]

\* the session id a message carries in its context
MsgSid(mo) ==
  IF mo = NoMsg THEN "<nomsg>"
  ELSE IF ~Has(mo[1].context, "session") THEN "<nosession>"
  ELSE IF ~Has(mo[1].context["session"], "session_id") THEN "<noid>"
  ELSE mo[1].context["session"]["session_id"]

\* the session id a serialized session carries
DictSid(d) == Get(d, "session_id", "<noid>")

Called(op, arg) == lastOp' = op /\ lastArg' = arg

\* time passes
Tick ==
  /\ now < MaxTime
  /\ now' = now + 1
  /\ Called("tick", "")
  /\ UNCHANGED <<cfg, aux, thr, lock, heap, sessions, default_session, bus,
                 client_session_id, held, rx, dispatch, sent, inbox,
                 connected>>

\* a caller builds Session(session_id, expiration_seconds) and keeps it
NewSession(p, session_id, expiration_seconds) ==
  /\ CanBuild(SM(p), session_id)
  /\ LET r == NewRef(heap[p])
         s == Session(session_id, expiration_seconds, <<>>, EmptyDict, "",
                      FALSE, <<>>, cfg[p], now, uuid4(SM(p)))
     IN /\ SetSM(p, [SM(p) EXCEPT !.heap = Put(@, r, s)], {r})
        /\ held' = [held EXCEPT ![p] = [ref |-> r, msg_default |-> FALSE]]
        /\ Called("Session", session_id)
  /\ UNCHANGED <<cfg, aux, thr, lock, now, bus, client_session_id, rx, dispatch, sent,
                 inbox, connected>>

\* SessionManager.update(sess, make_default) on the session the caller holds
Update(p, make_default) ==
  /\ held[p].ref # NoRef
  /\ SetSM(p, update(SM(p), held[p].ref, make_default), {held[p].ref})
  /\ Called(IF make_default THEN "update_make_default" ELSE "update", "")
  /\ UNCHANGED <<cfg, aux, thr, lock, now, bus, client_session_id, held, rx, dispatch, sent,
                 inbox, connected>>

\* sess = SessionManager.get(message)
GetSession(p, mo) ==
  /\ CanFromMessage(SM(p), mo)
  /\ LET g == get(SM(p), mo, cfg[p], now)
     IN /\ SetSM(p, g.sm, {g.ret})
        /\ held' = [held EXCEPT ![p] = [ref |-> g.ret,
                                        msg_default |-> MsgSid(mo) = "default"]]
        /\ Called("get", MsgSid(mo))
  /\ UNCHANGED <<cfg, aux, thr, lock, now, bus, client_session_id, rx, dispatch, sent,
                 inbox, connected>>

\* sess = Session.from_message(message)
FromMessage(p, mo) ==
  /\ CanFromMessage(SM(p), mo)
  /\ LET fm == from_message(SM(p), mo, cfg[p], now)
     IN /\ SetSM(p, fm.sm, {fm.ret})
        /\ held' = [held EXCEPT ![p] = [ref |-> fm.ret,
                                        msg_default |-> MsgSid(mo) = "default"]]
        /\ Called("from_message", MsgSid(mo))
  /\ UNCHANGED <<cfg, aux, thr, lock, now, bus, client_session_id, rx, dispatch, sent,
                 inbox, connected>>

\* a mutator of the held session: each ends in touch()
Mutate(p, op, sm) ==
  /\ held[p].ref # NoRef
  /\ SetSM(p, sm, {held[p].ref})
  /\ Called(op, "")
  /\ UNCHANGED <<cfg, aux, thr, lock, now, bus, client_session_id, held, rx, dispatch, sent,
                 inbox, connected>>

Touch(p) == Mutate(p, "touch", touch(SM(p), held[p].ref, now))
ActivateSkill(p, k) ==
  Mutate(p, "activate_skill", activate_skill(SM(p), held[p].ref, k, now))
DeactivateSkill(p, k) ==
  Mutate(p, "deactivate_skill", deactivate_skill(SM(p), held[p].ref, k, now))
EnableResponseMode(p, k) ==
  Mutate(p, "enable_response_mode",
         enable_response_mode(SM(p), held[p].ref, k, now))
DisableResponseMode(p, k) ==
  Mutate(p, "disable_response_mode",
         disable_response_mode(SM(p), held[p].ref, k, now))
Clear(p) == Mutate(p, "clear", clear(SM(p), held[p].ref, now))

\* SessionManager.reset_default_session
ResetDefaultSession(p) ==
  /\ CanAlloc(heap[p])
  /\ Len(sent[p]) < MaxQueue
  /\ LET sm == reset_default_session(SM(p), cfg[p], now)
     IN /\ SetSM(p, sm, {held[p].ref})
        /\ sent' = [sent EXCEPT ![p] =
                      sync(@, sm, bus[p], client_session_id[p], NoMsg,
                           cfg[p], now)]
        /\ Called("reset_default_session", "")
  /\ UNCHANGED <<cfg, aux, thr, lock, now, bus, client_session_id, held, rx, dispatch,
                 inbox, connected>>

\* MessageBusClient.on_open
OnOpen(p) ==
  /\ ~connected[p]
  /\ Len(sent[p]) < MaxQueue
  /\ connected' = [connected EXCEPT ![p] = TRUE]
  /\ sent' = [sent EXCEPT ![p] =
                emit(@, SM(p), client_session_id[p],
                     Message("ovos.session.sync", EmptyDict, EmptyDict),
                     cfg[p], now)]
  /\ Called("on_open", "")
  /\ UNCHANGED <<cfg, aux, thr, lock, now, heap, sessions, default_session, bus,
                 client_session_id, held, rx, dispatch, inbox>>

\* SessionManager.connect_to_bus(bus), bus being the connected client of p
ConnectToBus(p) ==
  /\ connected[p]
  /\ ~bus[p]
  /\ Len(sent[p]) < MaxQueue
  /\ bus' = [bus EXCEPT ![p] = TRUE]
  /\ sent' = [sent EXCEPT ![p] =
                sync(@, SM(p), TRUE, client_session_id[p], NoMsg,
                     cfg[p], now)]
  /\ Called("connect_to_bus", "")
  /\ UNCHANGED <<cfg, aux, thr, lock, now, heap, sessions, default_session,
                 client_session_id, held, rx, dispatch, inbox, connected>>

\* on_message that resolves the session and never stores it
on_message_no_store(sm, parsed, c, t) ==
  from_message(sm, <<parsed>>, c, t).sm

\* MessageBusClient(session=sess), lines 55-60, for the session the caller
\* holds: the client is built before its socket is opened
NewClient(p) ==
  /\ ~connected[p]
  /\ held[p].ref # NoRef
  /\ SetSM(p, update(SM(p), held[p].ref, FALSE), {held[p].ref})
  /\ client_session_id' =
       [client_session_id EXCEPT ![p] = heap[p][held[p].ref].session_id]
  /\ Called("MessageBusClient", heap[p][held[p].ref].session_id)
  /\ UNCHANGED <<cfg, aux, thr, lock, now, bus, held, rx, dispatch, sent, inbox,
                 connected>>

\* MessageBusClient.emit(message) on a connected client
Emit(p, m) ==
  /\ connected[p]
  /\ Len(sent[p]) < MaxQueue
  /\ sent' = [sent EXCEPT ![p] =
                emit(@, SM(p), client_session_id[p], m, cfg[p], now)]
  /\ Called("emit", MsgSid(<<m>>))
  /\ UNCHANGED <<cfg, aux, thr, lock, now, heap, sessions, default_session, bus,
                 client_session_id, held, rx, dispatch, inbox, connected>>

\* MessageBusClient.on_message, lines 149-152: resolve the session of the
\* parsed message and store it
on_message(sm, parsed, c, t) ==
  LET fm == from_message(sm, <<parsed>>, c, t)
  IN IF fm.sm.heap[fm.ret].session_id # "default"
     THEN update(fm.sm, fm.ret, FALSE)
     ELSE fm.sm

\* emitter.emit(parsed_message.msg_type, parsed_message): every handler of
\* the type is submitted to the executor
emitter_emit(p, q, m) ==
  IF HasHandler(p, m.msg_type) THEN Append(q, m) ELSE q

\* MessageBusClient.on_message as one step of the receiving thread
OnMessage(p, frame) ==
  LET parsed == Message_deserialize(frame)
  IN /\ rx[p] = NoMsg
     /\ CanFromMessage(SM(p), <<parsed>>)
     /\ HasHandler(p, parsed.msg_type) => Len(dispatch[p]) < MaxQueue
     /\ SetSM(p, on_message(SM(p), parsed, cfg[p], now), {held[p].ref})
     /\ dispatch' = [dispatch EXCEPT ![p] =
                       emitter_emit(p, @, from_message_msg(parsed))]
     /\ Called("on_message", MsgSid(<<parsed>>))
     /\ UNCHANGED <<cfg, aux, thr, lock, now, bus, client_session_id, held, rx, sent,
                    connected>>

\* MessageBusClient.on_message, lines 145-152, as a step of its own: other
\* threads run between it and the emit below
OnMessageUpdate(p, frame) ==
  LET parsed == Message_deserialize(frame)
  IN /\ rx[p] = NoMsg
     /\ CanFromMessage(SM(p), <<parsed>>)
     /\ SetSM(p, on_message(SM(p), parsed, cfg[p], now), {held[p].ref})
     /\ rx' = [rx EXCEPT ![p] = <<from_message_msg(parsed)>>]
     /\ Called("on_message.update", MsgSid(<<parsed>>))
     /\ UNCHANGED <<cfg, aux, thr, lock, now, bus, client_session_id, held, dispatch, sent,
                    connected>>

\* MessageBusClient.on_message, lines 153-154
OnMessageEmit(p) ==
  /\ rx[p] # NoMsg
  /\ HasHandler(p, rx[p][1].msg_type) => Len(dispatch[p]) < MaxQueue
  /\ dispatch' = [dispatch EXCEPT ![p] = emitter_emit(p, @, rx[p][1])]
  /\ rx' = [rx EXCEPT ![p] = NoMsg]
  /\ Called("on_message.emit", MsgSid(rx[p]))
  /\ UNCHANGED <<cfg, aux, thr, lock, now, heap, sessions, default_session, bus,
                 client_session_id, held, sent, inbox, connected>>

\* on_default_session_update that keeps the active skills of the previous
\* default when the new one has none
on_default_session_update_merge(sm, m, c, t) ==
  LET r == NewRef(sm.heap)
      sess == deserialize(m.data["session_data"], c, t, uuid4(sm))
      old == sm.heap[sm.default_session]
      merged == IF sess.active_skills = <<>>
                THEN [sess EXCEPT !.active_skills = old.active_skills]
                ELSE sess
  IN update([sm EXCEPT !.heap = Put(@, r, merged)], r, TRUE)

\* MessageBusClient.on_default_session_update
on_default_session_update(sm, m, c, t) ==
  LET r == NewRef(sm.heap)
      sess == deserialize(m.data["session_data"], c, t, uuid4(sm))
  IN update([sm EXCEPT !.heap = Put(@, r, sess)], r, TRUE)

\* the executor runs on_default_session_update for a pending message
OnDefaultSessionUpdate(p, i) ==
  /\ i \in DOMAIN dispatch[p]
  /\ dispatch[p][i].msg_type = "ovos.session.update_default"
  /\ Has(dispatch[p][i].data, "session_data")
  /\ CanBuild(SM(p), Get(dispatch[p][i].data["session_data"],
                         "session_id", ""))
  /\ LET sm == on_default_session_update(SM(p), dispatch[p][i], cfg[p], now)
     IN /\ SetSM(p, sm, {held[p].ref})
        /\ Called("on_default_session_update",
                  DictSid(dispatch[p][i].data["session_data"]))
  /\ dispatch' = [dispatch EXCEPT ![p] = Pop(@, i)]
  /\ UNCHANGED <<cfg, aux, thr, lock, now, bus, client_session_id, held, rx, sent,
                 inbox, connected>>

\* the executor runs SessionManager.handle_default_session_request
HandleDefaultSessionRequest(p, i) ==
  /\ i \in DOMAIN dispatch[p]
  /\ dispatch[p][i].msg_type = "ovos.session.sync"
  /\ Len(sent[p]) < MaxQueue
  /\ sent' = [sent EXCEPT ![p] =
                sync(@, SM(p), bus[p], client_session_id[p],
                     <<dispatch[p][i]>>, cfg[p], now)]
  /\ dispatch' = [dispatch EXCEPT ![p] = Pop(@, i)]
  /\ Called("handle_default_session_request", MsgSid(<<dispatch[p][i]>>))
  /\ UNCHANGED <<cfg, aux, thr, lock, now, heap, sessions, default_session, bus,
                 client_session_id, held, rx, inbox, connected>>

\* SessionManager.prune_sessions
PruneSessions(p) ==
  /\ SetSM(p, prune_sessions(SM(p)), {held[p].ref})
  /\ Called("prune_sessions", "")
  /\ UNCHANGED <<cfg, aux, thr, lock, now, bus, client_session_id, held, rx, dispatch, sent,
                 inbox, connected>>

\* WebSocketApp.send completes: the frame has left the socket
Send(p) ==
  /\ sent[p] # <<>>
  /\ sent' = [sent EXCEPT ![p] = Tail(@)]
  /\ Called("send", "")
  /\ UNCHANGED <<cfg, aux, thr, lock, now, heap, sessions, default_session, bus,
                 client_session_id, held, rx, dispatch, inbox, connected>>


(* ------------------- update and reset, statement by statement ---------- *)
\* the objects the threads hold, after thread t has moved to st
ThreadRefs(t, st) == {[thr EXCEPT ![t] = st][u].sess : u \in Threads}

ThreadStep(t, st, sm, op) ==
  /\ thr' = [thr EXCEPT ![t] = st]
  /\ SetSM("A", sm, ThreadRefs(t, st))
  /\ Called(op, t)
  /\ UNCHANGED <<cfg, aux, now, bus, client_session_id, held, rx, dispatch,
                 inbox, connected>>

\* a thread calls SessionManager.update(sess, make_default) on the current
\* default session object (as touch() does on the session get() returned)
CallUpdateDefault(t, make_default) ==
  /\ thr[t].pc = "idle"
  /\ ThreadStep(t, [pc |-> "update_rename", sess |-> default_session["A"],
                    make_default |-> make_default], SM("A"), "call_update")
  /\ UNCHANGED <<lock, sent>>

\* a thread calls SessionManager.update(Session(session_id), make_default)
CallUpdateNew(t, session_id, make_default) ==
  /\ thr[t].pc = "idle"
  /\ CanBuild(SM("A"), session_id)
  /\ LET r == NewRef(heap["A"])
         s == Session(session_id, 0, <<>>, EmptyDict, "", FALSE, <<>>,
                      cfg["A"], now, uuid4(SM("A")))
     IN ThreadStep(t, [pc |-> "update_rename", sess |-> r,
                       make_default |-> make_default],
                   [SM("A") EXCEPT !.heap = Put(@, r, s)], "call_update")
  /\ UNCHANGED <<lock, sent>>

\* update, lines 575-576: if make_default: sess.session_id = "default"
UpdateRename(t) ==
  /\ thr[t].pc = "update_rename"
  /\ ThreadStep(t, [thr[t] EXCEPT !.pc = "update_default"],
                IF thr[t].make_default
                THEN [SM("A") EXCEPT !.heap[thr[t].sess].session_id = "default"]
                ELSE SM("A"),
                "update_rename")
  /\ UNCHANGED <<lock, sent>>

\* update, lines 580-581: if sess.session_id == "default":
\* SessionManager.default_session = sess
UpdateDefault(t) ==
  /\ thr[t].pc = "update_default"
  /\ ThreadStep(t, [thr[t] EXCEPT !.pc = "update_store"],
                IF heap["A"][thr[t].sess].session_id = "default"
                THEN [SM("A") EXCEPT !.default_session = thr[t].sess]
                ELSE SM("A"),
                "update_default")
  /\ UNCHANGED <<lock, sent>>

\* update, line 582: SessionManager.sessions[sess.session_id] = sess, and
\* the call returns
UpdateStore(t) ==
  /\ thr[t].pc = "update_store"
  /\ ThreadStep(t, Idle,
                [SM("A") EXCEPT !.sessions =
                   Put(@, heap["A"][thr[t].sess].session_id, thr[t].sess)],
                "update_store")
  /\ UNCHANGED <<lock, sent>>

\* reset_default_session, lines 557-558: with SessionManager.__lock:
\* sess = Session("default")
ResetAcquire(t) ==
  /\ thr[t].pc = "idle"
  /\ lock = ""
  /\ CanAlloc(heap["A"])
  /\ lock' = t
  /\ LET r == NewRef(heap["A"])
         s == Session("default", 0, <<>>, EmptyDict, "", FALSE, <<>>,
                      cfg["A"], now, uuid4(SM("A")))
     IN ThreadStep(t, [pc |-> "reset_default", sess |-> r,
                       make_default |-> FALSE],
                   [SM("A") EXCEPT !.heap = Put(@, r, s)], "call_reset")
  /\ UNCHANGED sent

\* reset_default_session, line 560, first target of the chained
\* assignment: SessionManager.default_session = sess
ResetDefault(t) ==
  /\ thr[t].pc = "reset_default"
  /\ ThreadStep(t, [thr[t] EXCEPT !.pc = "reset_store"],
                [SM("A") EXCEPT !.default_session = thr[t].sess],
                "reset_default")
  /\ UNCHANGED <<lock, sent>>

\* reset_default_session, line 560, second target:
\* SessionManager.sessions["default"] = sess
ResetStore(t) ==
  /\ thr[t].pc = "reset_store"
  /\ ThreadStep(t, [thr[t] EXCEPT !.pc = "reset_sync"],
                [SM("A") EXCEPT !.sessions = Put(@, "default", thr[t].sess)],
                "reset_store")
  /\ UNCHANGED <<lock, sent>>

\* reset_default_session, lines 561-562: SessionManager.sync(), the lock is
\* released and the call returns
ResetRelease(t) ==
  /\ thr[t].pc = "reset_sync"
  /\ lock = t
  /\ Len(sent["A"]) < MaxQueue
  /\ lock' = ""
  /\ sent' = [sent EXCEPT !["A"] =
                sync(@, SM("A"), bus["A"], client_session_id["A"], NoMsg,
                     cfg["A"], now)]
  /\ ThreadStep(t, Idle, SM("A"), "reset_release")

\* the messagebus server forwards the oldest frame client p has sent to
\* every connected client, the sender included
Deliver(p) ==
  /\ sent[p] # <<>>
  /\ sent' = [sent EXCEPT ![p] = Tail(@)]
  /\ inbox' = [q \in Procs |->
                IF connected[q] THEN Append(inbox[q], Head(sent[p]))
                ELSE inbox[q]]
  /\ Called("deliver", p)
  /\ UNCHANGED <<cfg, aux, thr, lock, now, heap, sessions, default_session,
                 bus, client_session_id, held, rx, dispatch, connected>>

\* the websocket thread of client p calls on_message with the oldest frame
\* it has received
Receive(p) ==
  /\ inbox[p] # <<>>
  /\ OnMessage(p, Head(inbox[p]))
  /\ inbox' = [inbox EXCEPT ![p] = Tail(@)]

\* frames and handler calls under way
Traffic ==
  Len(sent["A"]) + Len(sent["B"]) + Len(inbox["A"]) + Len(inbox["B"])
    + Len(dispatch["A"]) + Len(dispatch["B"])

(* ------------------- Message objects and their dicts ------------------ *)
\* A Message object holds a reference to its context dict; a context dict
\* holds a reference to the dict under its "session" key.  mem.ctx and
\* mem.sd are the two kinds of dict objects.
\* the value of the context dict r
MemContext(mm, r) ==
  IF mm.ctx[r].session = NoRef THEN mm.ctx[r].keys
  ELSE Put(mm.ctx[r].keys, "session", mm.sd[mm.ctx[r].session])

\* the value of the Message object o
MemMessage(mm, o) == Message(o.msg_type, o.data, MemContext(mm, o.context))

\* dict objects are freed when no Message object reaches them
MemCollect(mm) ==
  LET objs == Range(mm.m) \cup Range(mm.m2)
      cs == {o.context : o \in objs}
      ss == {mm.ctx[r].session : r \in cs} \ {NoRef}
  IN [mm EXCEPT !.ctx = Restrict(@, cs), !.sd = Restrict(@, ss)]

\* a new context dict with the value v, and a new dict under "session":
\* what deepcopy and a dict literal give
MemStore(mm, v) ==
  LET r == NewRef(mm.ctx)
      q == NewRef(mm.sd)
  IN IF Has(v, "session")
     THEN [mm EXCEPT !.ctx = Put(@, r, [keys |-> Del(v, "session"),
                                        session |-> q]),
                     !.sd = Put(@, q, v["session"])]
     ELSE [mm EXCEPT !.ctx = Put(@, r, [keys |-> v, session |-> NoRef])]
CanStore(mm, v) ==
  CanAlloc(mm.ctx) /\ (Has(v, "session") => CanAlloc(mm.sd))

MemStep(mm, op, arg) ==
  /\ mem' = MemCollect(mm)
  /\ Called(op, arg)
  /\ UNCHANGED <<cfg, websocket, io, started_running, listeners, waits, thr,
                 lock, now, heap, sessions, default_session, bus,
                 client_session_id, held, rx, dispatch, inbox, connected>>

\* m = Message(msg_type, data, context)
NewMessage(msg_type, data, context) ==
  /\ mem.m2 = <<>>
  /\ LET mm == MemStore([mem EXCEPT !.m = <<>>], context)
     IN MemStep([mm EXCEPT !.m = <<[msg_type |-> msg_type, data |-> data,
                                    context |-> NewRef(mem.ctx)]>>],
                "Message", "")
  /\ UNCHANGED sent

\* m2 = m.forward(msg_type, data): Message(msg_type, data,
\* context=self.context), the same dict object
Forward(msg_type, data) ==
  /\ mem.m # <<>> /\ mem.m2 = <<>>
  /\ LET v == forward(MemMessage(mem, mem.m[1]), msg_type, data)
     IN MemStep([mem EXCEPT !.m2 = <<[msg_type |-> v.msg_type,
                                      data |-> v.data,
                                      context |-> mem.m[1].context]>>],
                "forward", "")
  /\ UNCHANGED sent

\* the Message object for the value v, with a deep copy of its context
MemDeep(v) ==
  [MemStore(mem, v.context) EXCEPT !.m2 =
     <<[msg_type |-> v.msg_type, data |-> v.data,
        context |-> NewRef(mem.ctx)]>>]

\* m2 = m.reply(msg_type, data, context): new_context is
\* deepcopy(self.context)
Reply(msg_type, data, context) ==
  /\ mem.m # <<>> /\ mem.m2 = <<>>
  /\ LET v == reply(MemMessage(mem, mem.m[1]), msg_type, data, context)
     IN /\ CanStore(mem, v.context)
        /\ MemStep(MemDeep(v), "reply", "")
  /\ UNCHANGED sent

\* m2 = m.response(data, context)
Response(data, context) ==
  /\ mem.m # <<>> /\ mem.m2 = <<>>
  /\ LET v == response(MemMessage(mem, mem.m[1]), data, context)
     IN /\ CanStore(mem, v.context)
        /\ MemStep(MemDeep(v), "response", "")
  /\ UNCHANGED sent

\* m2 = m.publish(msg_type, data, context): new_context is
\* self.context.copy(), a new dict whose values are the original's objects
Publish(msg_type, data, context) ==
  /\ mem.m # <<>> /\ mem.m2 = <<>>
  /\ CanAlloc(mem.ctx)
  /\ LET v == publish(MemMessage(mem, mem.m[1]), msg_type, data, context)
         r == NewRef(mem.ctx)
     IN MemStep([mem EXCEPT
                   !.ctx = Put(@, r, [keys |-> Del(v.context, "session"),
                                      session |->
                                        mem.ctx[mem.m[1].context].session]),
                   !.m2 = <<[msg_type |-> v.msg_type, data |-> v.data,
                             context |-> r]>>],
                "publish", "")
  /\ UNCHANGED sent

\* the caller drops m2, once the socket of client p has taken what was
\* emitted
DropDerived(p) ==
  /\ mem.m2 # <<>>
  /\ sent[p] = <<>>
  /\ MemStep([mem EXCEPT !.m2 = <<>>], "del", "")
  /\ UNCHANGED sent

\* bus.emit(m2) on a connected client: message.context["session"] is
\* assigned in the dict object of m2, then the message is sent
EmitDerived(p) ==
  /\ mem.m2 # <<>>
  /\ connected[p]
  /\ Len(sent[p]) < MaxQueue
  /\ LET o == mem.m2[1]
         v == emit_message(SM(p), client_session_id[p], MemMessage(mem, o),
                           cfg[p], now)
     IN /\ (mem.ctx[o.context].session = NoRef) => CanAlloc(mem.sd)
        /\ sent' = [sent EXCEPT ![p] = Append(@, Message_serialize(v))]
        /\ MemStep(IF mem.ctx[o.context].session = NoRef
                   THEN [mem EXCEPT
                           !.ctx[o.context].session = NewRef(mem.sd),
                           !.sd = Put(@, NewRef(mem.sd),
                                      v.context["session"])]
                   ELSE mem,
                   "emit", MsgSid(<<MemMessage(mem, o)>>))

\* Session.from_message(m2), the Session returned being dropped:
\* sess["lang"] = lang is assigned in the dict object under "session"
FromMessageDerived(p) ==
  /\ mem.m2 # <<>>
  /\ LET o == mem.m2[1]
         v == from_message_msg(MemMessage(mem, o))
     IN /\ CanFromMessage(SM(p), <<MemMessage(mem, o)>>)
        /\ MemStep(IF mem.ctx[o.context].session = NoRef THEN mem
                   ELSE [mem EXCEPT !.sd[mem.ctx[o.context].session] =
                                      v.context["session"]],
                   "from_message", MsgSid(<<MemMessage(mem, o)>>))
  /\ UNCHANGED sent

(* ------------------------- inbound traffic ---------------------------- *)
\* serialized sessions other processes put in their messages
SD(session_id) ==
  [ session_id |-> session_id, lang |-> "en-US", active_skills |-> <<>>,
    utterance_states |-> EmptyDict, is_speaking |-> FALSE,
    blacklisted_skills |-> <<>> ]
SDrich ==
  [SD("X") EXCEPT !.blacklisted_skills = <<"bad">>,
                  !.active_skills = << <<"sk1", 0>> >>]
InSessions == { SD("default"), SD("X"), [session_id |-> ""] }
Routes ==
  { EmptyDict, [source |-> "a"], [destination |-> "b"],
    [source |-> "a", destination |-> "b"] }
\* frames of other message types, with and without a session
SpeakFrames ==
  { [type |-> "speak", data |-> EmptyDict, context |-> [session |-> sd]] :
       sd \in InSessions }
  \cup { [type |-> "speak", data |-> [lang |-> "en-us"],
          context |-> [session |-> [session_id |-> ""]]],
         [type |-> "speak", data |-> EmptyDict, context |-> EmptyDict] }
SyncFrames ==
  { [type |-> "ovos.session.sync", data |-> EmptyDict, context |-> c] :
       c \in Routes \cup {Put(r, "session", SD("X")) : r \in Routes} }
UpdateDefaultFrames ==
  { [type |-> "ovos.session.update_default",
     data |-> [session_data |-> sd], context |-> EmptyDict] :
       sd \in InSessions \cup {SDrich} }
RichFrame ==
  [type |-> "ovos.session.update_default",
   data |-> [session_data |-> SDrich], context |-> EmptyDict]
\* a default-session update as another client emits it, with its own
\* session "X" in the context
UpdateFromX ==
  [type |-> "ovos.session.update_default",
   data |-> [session_data |-> SD("default")],
   context |-> [session |-> SD("X")]]
InFrames == SpeakFrames \cup SyncFrames \cup UpdateDefaultFrames
\* the message a caller passes to get / from_message, << >> for none
InMessages == {NoMsg} \cup {<<Message_deserialize(f)>> : f \in SpeakFrames}

(* --------------------------- specification ---------------------------- *)
\* state after import of ovos_bus_client.session (class attributes of
\* SessionManager) and construction of a MessageBusClient without session
InitWS(C, W) ==
  /\ cfg \in C
  /\ now = 0
  /\ heap = [p \in Procs |->
              1 :> Session("default", 0, <<>>, EmptyDict, "", FALSE, <<>>,
                           cfg[p], 0, "u0")]
  /\ sessions = [p \in Procs |-> "default" :> 1]
  /\ default_session = [p \in Procs |-> 1]
  /\ bus = [p \in Procs |-> FALSE]
  /\ client_session_id = [p \in Procs |-> "default"]
  /\ held = [p \in Procs |-> NoHeld]
  /\ rx = [p \in Procs |-> NoMsg]
  /\ dispatch = [p \in Procs |-> <<>>]
  /\ sent = [p \in Procs |-> <<>>]
  /\ inbox = [p \in Procs |-> <<>>]
  /\ connected = [p \in Procs |-> FALSE]
  /\ thr = [t \in Threads |-> Idle]
  /\ lock = ""
  /\ mem = NoMem
  /\ websocket \in W
  /\ io = NoIO
  /\ started_running = [p \in Procs |-> FALSE]
  /\ listeners = {}
  /\ waits = [t \in Threads |-> NoWait]
  /\ lastOp = "init" /\ lastArg = ""

\* no websocket.secret_key in the configuration
InitWith(C) == InitWS(C, {NoSecret})

FirstConfig == CHOOSE c \in Configs : c.ttl = -1

\* one process, A, and the frames other processes send it
Init == InitWith({c \in [Procs -> Configs] : c["B"] = FirstConfig})

\* calls on the registry, and the two client callbacks that reach it
Registry(p) ==
  \/ \E sid \in {"", "X", "default"} : NewSession(p, sid, 0)
  \/ \E md \in BOOLEAN : Update(p, md)
  \/ \E mo \in InMessages : GetSession(p, mo)
  \/ \E mo \in InMessages : FromMessage(p, mo)
  \/ Touch(p)
  \/ ResetDefaultSession(p)
  \/ \E f \in SpeakFrames \cup (UpdateDefaultFrames \ {RichFrame}) :
        OnMessage(p, f) /\ UNCHANGED inbox
  \/ \E i \in 1..MaxQueue : OnDefaultSessionUpdate(p, i)

Next == Registry("A")

Spec == Init /\ [][Next]_vars

\* sessions are registered, touched, left to expire and pruned
Pruning(p) ==
  \/ \E sid \in {"", "X", "default"} : NewSession(p, sid, 0)
  \/ Update(p, FALSE)
  \/ \E mo \in InMessages : GetSession(p, mo)
  \/ Touch(p)
  \/ PruneSessions(p)

NextPrune == Tick \/ Pruning("A")
SpecPrune == Init /\ [][NextPrune]_vars

\* a handler resolves the session of a message and changes it
Mutator(p) ==
  \/ Touch(p)
  \/ Clear(p)
  \/ \E k \in Skills : ActivateSkill(p, k)
  \/ \E k \in Skills : DeactivateSkill(p, k)
  \/ \E k \in Skills : EnableResponseMode(p, k)
  \/ \E k \in Skills : DisableResponseMode(p, k)
HandledMessages ==
  {mo \in InMessages : MsgSid(mo) \in {"default", "X", "<nosession>"}}
Handling(p) ==
  \/ \E mo \in HandledMessages : GetSession(p, mo)
  \/ \E mo \in HandledMessages : FromMessage(p, mo)
  \/ Mutator(p)

NextHandling == Tick \/ Handling("A")
SpecHandling == Init /\ [][NextHandling]_vars

\* the receiving thread of the client and the executor behind its emitter,
\* while a handler changes the local default session
ReceivedFrames == SpeakFrames \cup UpdateDefaultFrames \cup {UpdateFromX}
Receiving(p) ==
  \/ \E f \in ReceivedFrames : OnMessageUpdate(p, f) /\ UNCHANGED inbox
  \/ OnMessageEmit(p)
  \/ \E i \in 1..MaxQueue : OnDefaultSessionUpdate(p, i)
  \/ GetSession(p, NoMsg)
  \/ \E k \in Skills : ActivateSkill(p, k)

NextReceive == Receiving("A")
SpecReceive == Init /\ [][NextReceive]_vars

\* a client whose SessionManager gets bound to the bus and answers the
\* sync requests of other processes
RequestFrames == SyncFrames \cup {RichFrame}
Replying(p) ==
  \/ OnOpen(p)
  \/ ConnectToBus(p)
  \/ \E f \in RequestFrames : OnMessage(p, f) /\ UNCHANGED inbox
  \/ \E i \in 1..MaxQueue : HandleDefaultSessionRequest(p, i)
  \/ \E i \in 1..MaxQueue : OnDefaultSessionUpdate(p, i)
  \/ ResetDefaultSession(p)
  \/ Send(p)

NextReply == Replying("A")
SpecReply == Init /\ [][NextReply]_vars

\* threads of one process call update and reset_default_session at the
\* same time
Concurrent(t) ==
  \/ \E md \in BOOLEAN : CallUpdateDefault(t, md)
  \/ \E md \in BOOLEAN : CallUpdateNew(t, "X", md)
  \/ UpdateRename(t)
  \/ UpdateDefault(t)
  \/ UpdateStore(t)
  \/ ResetAcquire(t)
  \/ ResetDefault(t)
  \/ ResetStore(t)
  \/ ResetRelease(t)

NextConc == \E t \in Threads : Concurrent(t)
SpecConc == Init /\ [][NextConc]_vars

\* two processes on one bus: A binds its SessionManager to the bus and
\* resets its default session, B only opens its client
InitSync == InitWith([Procs -> Configs])
Announcing ==
  \/ \E p \in Procs : Traffic < MaxQueue /\ OnOpen(p)
  \/ Traffic < MaxQueue /\ ConnectToBus("A")
  \/ Traffic < MaxQueue /\ ResetDefaultSession("A")
Handlers(p) ==
  \/ \E i \in 1..MaxQueue : OnDefaultSessionUpdate(p, i)
  \/ \E i \in 1..MaxQueue : HandleDefaultSessionRequest(p, i)
NextSync ==
  \/ Announcing
  \/ \E p \in Procs : Deliver(p)
  \/ \E p \in Procs : Receive(p)
  \/ \E p \in Procs : Handlers(p)
\* the bus delivers, and every thread of a client keeps running
FairSync ==
  \A p \in Procs :
    /\ WF_vars(Deliver(p))
    /\ WF_vars(Receive(p))
    /\ WF_vars(Handlers(p))
SpecSync == InitSync /\ [][NextSync]_vars /\ FairSync

\* a client built for a session of its own emits messages while the
\* registry changes under it
EmitMessages ==
  { Message("speak", [utterance |-> "hi"], c) :
      c \in Routes \cup { [session |-> SD("X")], [session |-> SD("default")],
                         [session |-> [session_id |-> ""]],
                         [source |-> "a", session |-> SDrich] } }
Emitting(p) ==
  \/ \E sid \in {"", "X"} : NewSession(p, sid, 0)
  \/ NewClient(p)
  \/ OnOpen(p)
  \/ \E m \in EmitMessages : Emit(p, m)
  \/ \E k \in Skills : ActivateSkill(p, k)
  \/ PruneSessions(p)
  \/ Send(p)

NextEmit == Emitting("A")
SpecEmit == Init /\ [][NextEmit]_vars

\* a caller builds a Message, derives another from it and hands the
\* derived one to the library
InContexts ==
  Routes \cup
  { [ident |-> "i", target |-> "t", source |-> "a", destination |-> "b"],
    [session |-> [session_id |-> "X"]],
    [session |-> SD("X"), source |-> "a"],
    [lang |-> "pt-pt", session |-> [session_id |-> "X"], target |-> "t"] }
InData == { EmptyDict, [destination |-> "d"], [lang |-> "en-us"] }
ExtraContexts ==
  { EmptyDict, [source |-> "x"], [destination |-> "y"], [ident |-> "j"],
    [target |-> "z"] }
Deriving ==
  \/ \E c \in InContexts : NewMessage("q", [utterance |-> "hi"], c)
  \/ \E d \in InData : Forward("f", d)
  \/ \E d \in InData, x \in ExtraContexts : Reply("r", d, x)
  \/ \E d \in InData, x \in ExtraContexts : Response(d, x)
  \/ \E d \in InData, x \in ExtraContexts : Publish("p", d, x)
  \/ DropDerived("A")
  \/ EmitDerived("A")
  \/ FromMessageDerived("A")
  \/ OnOpen("A")
  \/ Send("A")

NextMessage == Deriving
SpecMessage == Init /\ [][NextMessage]_vars

(* ------------------- serialize and deserialize on the wire ------------- *)
\* everything but the outcome of the last Message.deserialize call
NoCodec == <<cfg, now, heap, sessions, default_session, bus, client_session_id, held, rx, dispatch, sent, inbox, connected, thr, lock, mem, websocket, started_running, listeners, waits>>

\* Message.deserialize(m.serialize()) in one process
RoundTrip(m) ==
  /\ io' = [value |-> serialize_str(m, websocket),
            result |-> deserialize_str(serialize_str(m, websocket), websocket)]
  /\ Called("roundtrip", m.msg_type)
  /\ UNCHANGED NoCodec

\* Message.deserialize(value) for a str another process has sent
Deserialize(value) ==
  /\ io' = [value |-> value, result |-> deserialize_str(value, websocket)]
  /\ Called("deserialize", "")
  /\ UNCHANGED NoCodec

\* the websocket section of the configuration: no secret (with either value
\* of allow_unencrypted), a secret with plaintext refused or accepted
WebsocketConfigs ==
  { NoSecret,
    [secret_key |-> "", allow_unencrypted |-> FALSE],
    [secret_key |-> "k1", allow_unencrypted |-> FALSE],
    [secret_key |-> "k1", allow_unencrypted |-> TRUE] }
\* what the senders of frames are configured with
SenderConfigs == { NoSecret, [secret_key |-> "k1", allow_unencrypted |-> FALSE], [secret_key |-> "k2", allow_unencrypted |-> FALSE] }

\* messages with JSON-safe data and context
CodecMessages ==
  { Message(t, d, c) : t \in {"", "q"},
                       d \in InData \cup {[utterance |-> "hi"]},
                       c \in InContexts \cup {EmptyDict} }

\* a frame whose tag was changed on the way
Tampered(f) == orjson_dumps([f.obj EXCEPT !["tag"] = "bad"])
\* the frames of these messages as the senders serialize them
SentFrames ==
  { serialize_str(m, w) :
      m \in { Message("q", [utterance |-> "hi"], [source |-> "a"]),
              Message("q", EmptyDict, EmptyDict) },
      w \in SenderConfigs }
\* what can arrive: frames of senders, tampered frames, JSON objects that
\* are no message, JSON that is no object, text that is no JSON
WireFrames ==
  SentFrames
    \cup { Tampered(f) : f \in {g \in SentFrames : Has(g.obj, "ciphertext")} }
    \cup { orjson_dumps(EmptyDict), orjson_dumps([type |-> "q"]),
           JsonList, NotJson }

Coding ==
  \/ \E m \in CodecMessages : RoundTrip(m)
  \/ \E f \in WireFrames : Deserialize(f)

InitCodec == InitWS({c \in [Procs -> Configs] : c["A"] = FirstConfig /\ c["B"] = FirstConfig}, WebsocketConfigs)
NextCodec == Coding
SpecCodec == InitCodec /\ [][NextCodec]_vars

(* --------------------- frames as the socket delivers them -------------- *)
\* MessageBusClient.on_message for the str the websocket received: when
\* Message.deserialize raises, the exception leaves on_message before
\* anything else is done
OnMessageStr(p, value) ==
  LET r == deserialize_str(value, websocket)
  IN IF r.raised # ""
     THEN /\ io' = [value |-> value, result |-> r]
          /\ Called("on_message", "<raised>")
          /\ UNCHANGED NoCodec
     ELSE OnMessage(p, value.obj) /\ UNCHANGED inbox

\* an exception has left on_message and has not been handled
Escaped == lastOp = "on_message" /\ lastArg = "<raised>"

\* MessageBusClient.on_error, which the WebSocketApp calls with the
\* exception of a callback: the websocket is closed, a new one is created
\* and run_forever is entered again
OnError(p) ==
  /\ Escaped
  /\ started_running' = [started_running EXCEPT ![p] = TRUE]
  /\ Called("on_error", io.result.raised)
  /\ UNCHANGED <<cfg, now, heap, sessions, default_session, bus, client_session_id, held, rx, dispatch, sent, inbox, connected, thr, lock, mem, websocket, io, listeners, waits>>

\* the strs the socket delivers: frames of senders with and without a
\* secret, tampered frames, JSON that is no object, text that is no JSON
InboundStr ==
  { orjson_dumps(f) : f \in SpeakFrames \cup {RichFrame} }
    \cup { f \in WireFrames : Has(f.obj, "ciphertext") }
    \cup { JsonList, NotJson }

Inbound(p) ==
  \/ \E v \in InboundStr : OnMessageStr(p, v)
  \/ OnError(p)
  \/ OnOpen(p)
  \/ Send(p)
  \/ \E i \in 1..MaxQueue : OnDefaultSessionUpdate(p, i)

NextInbound == Inbound("A")
SpecInbound == InitCodec /\ [][NextInbound]_vars

(* ----------------------- callers that wait on the bus ------------------ *)
\* the handler thread t has registered for event_name
Handler(t, event_name) == [thread |-> t, event_name |-> event_name]
\* everything but the waiting callers, their handlers and what they send
NoWaiting == <<cfg, now, heap, sessions, default_session, bus, client_session_id, held, rx, dispatch, inbox, thr, lock, mem, websocket, io>>

\* MessageBusClient.run_forever
RunForever(p) ==
  /\ ~started_running[p]
  /\ started_running' = [started_running EXCEPT ![p] = TRUE]
  /\ Called("run_forever", "")
  /\ UNCHANGED <<NoWaiting, sent, connected, listeners, waits>>

\* MessageBusClient.close
Close(p) ==
  /\ connected[p]
  /\ connected' = [connected EXCEPT ![p] = FALSE]
  /\ Called("close", "")
  /\ UNCHANGED <<NoWaiting, sent, started_running, listeners, waits>>

\* MessageBusClient.wait_for_response(Message("q")) up to the first wait of
\* emit: the MessageWaiter registers its handler with bus.once, emit enters
\* connected_event.wait(10)
WaitForResponse(p, t) ==
  /\ waits[t] = NoWait
  /\ listeners' = listeners \cup {Handler(t, "q.response")}
  /\ waits' = [waits EXCEPT ![t] = [pc |-> "emit", op |-> "wait_for_response",
                                    sessid |-> "", event |-> FALSE]]
  /\ Called("wait_for_response", t)
  /\ UNCHANGED <<NoWaiting, sent, connected, started_running>>

\* emit: connected_event.wait(10) returned false after ten seconds; without
\* run_forever ValueError leaves the call, otherwise emit enters
\* connected_event.wait() with no timeout
EmitTimeout(p, t) ==
  /\ waits[t].op = "wait_for_response"
  /\ waits[t].pc = "emit"
  /\ ~connected[p]
  /\ IF started_running[p]
     THEN /\ waits' = [waits EXCEPT ![t].pc = "blocked"]
          /\ Called("wait_for_response.emit", "blocked")
     ELSE /\ waits' = [waits EXCEPT ![t] = NoWait]
          /\ Called("wait_for_response.raise", "ValueError")
  /\ UNCHANGED <<NoWaiting, sent, connected, started_running, listeners>>

\* emit: connected_event is set, in either wait; client.send takes the
\* frame (ok) or raises WebSocketConnectionClosedException, which emit
\* catches; wait_for_response goes on to waiter.wait(timeout)
EmitSend(p, t, ok) ==
  /\ waits[t].op = "wait_for_response"
  /\ waits[t].pc \in {"emit", "blocked"}
  /\ connected[p]
  /\ IF ok
     THEN /\ Len(sent[p]) < MaxQueue
          /\ sent' = [sent EXCEPT ![p] =
                        emit(@, SM(p), client_session_id[p],
                             Message("q", EmptyDict, EmptyDict), cfg[p], now)]
     ELSE sent' = sent
  /\ waits' = [waits EXCEPT ![t].pc = "wait"]
  /\ Called("wait_for_response.emit", IF ok THEN "sent" ELSE "closed")
  /\ UNCHANGED <<NoWaiting, connected, started_running, listeners>>

\* the reply arrives: the emitter calls the waiter's handler once
ResponseArrives(p, t) ==
  /\ waits[t].op = "wait_for_response"
  /\ Handler(t, "q.response") \in listeners
  /\ connected[p]
  /\ listeners' = listeners \ {Handler(t, "q.response")}
  /\ waits' = [waits EXCEPT ![t].event = TRUE]
  /\ Called("wait_for_response.handler", t)
  /\ UNCHANGED <<NoWaiting, sent, connected, started_running>>

\* waiter.wait(timeout) returns: the reply when the handler has run, None
\* when the timeout has elapsed
WaiterReturn(p, t) ==
  /\ waits[t].op = "wait_for_response"
  /\ waits[t].pc = "wait"
  /\ listeners' = listeners \ {Handler(t, "q.response")}
  /\ waits' = [waits EXCEPT ![t] = NoWait]
  /\ Called("wait_for_response.return",
            IF waits[t].event THEN "reply" ELSE "None")
  /\ UNCHANGED <<NoWaiting, sent, connected, started_running>>

\* the steps a thread inside wait_for_response takes by itself
WaitProgress(p, t) ==
  \/ EmitTimeout(p, t)
  \/ \E ok \in BOOLEAN : EmitSend(p, t, ok)
  \/ WaiterReturn(p, t)

Waiting(p) ==
  \/ RunForever(p)
  \/ OnOpen(p)
  \/ Close(p)
  \/ Send(p)
  \/ \E t \in Threads : WaitForResponse(p, t)
  \/ \E t \in Threads : EmitTimeout(p, t)
  \/ \E t \in Threads, ok \in BOOLEAN : EmitSend(p, t, ok)
  \/ \E t \in Threads : ResponseArrives(p, t)
  \/ \E t \in Threads : WaiterReturn(p, t)

\* every timeout elapses and a thread whose event is set, even for a
\* moment, wakes up; whether the connection opens is up to the server
NextWait == Waiting("A")
FairWait == \A t \in Threads : SF_vars(WaitProgress("A", t))
SpecWait == Init /\ [][NextWait]_vars /\ FairWait

(* ------------- wait_while_speaking and wait_while_recording ------------ *)
WaitOps == {"wait_while_speaking", "wait_while_recording"}
\* the event each of them listens for
EndEvent(op) ==
  IF op = "wait_while_speaking" THEN "recognizer_loop:audio_output_end"
  ELSE "recognizer_loop:record_end"
\* everything but the registry, the waiting callers and their handlers
NoListening == <<cfg, now, bus, client_session_id, held, rx, dispatch, sent, inbox, connected, thr, lock, mem, websocket, io, started_running>>

\* SessionManager.handle_audio_output_start / handle_audio_output_end for a
\* message without session: the default session starts or stops speaking
handle_audio_output(sm, mo, speaking, c, t) ==
  LET g == get(sm, mo, c, t)
  IN update([g.sm EXCEPT !.heap[g.ret].is_speaking = speaking], g.ret, FALSE)
HandleAudioOutput(p, speaking) ==
  /\ SetSM(p, handle_audio_output(SM(p), NoMsg, speaking, cfg[p], now),
           {held[p].ref})
  /\ Called(IF speaking THEN "handle_audio_output_start"
            ELSE "handle_audio_output_end", "")
  /\ UNCHANGED <<NoListening, listeners, waits>>

\* cls.bus.remove(event_name, handler) at the end of both functions
wait_remove_on_end_only(ls, t, w) ==
  IF w.event THEN ls \ {Handler(t, EndEvent(w.op))} ELSE ls

wait_remove(ls, t, w) ==
  ls \ {Handler(t, EndEvent(w.op))}

\* wait_while_speaking / wait_while_recording up to event.wait(timeout),
\* called by thread t for a session with id sessid that is speaking /
\* recording (active) or not: without bus, or when the session is not
\* active, the call returns at once
WaitWhile(p, t, op, sessid, active) ==
  /\ waits[t] = NoWait
  /\ IF ~bus[p]
     THEN /\ Called(op \o ".return", "nobus")
          /\ UNCHANGED <<listeners, waits>>
     ELSE IF ~active
     THEN /\ Called(op \o ".return", "inactive")
          /\ UNCHANGED <<listeners, waits>>
     ELSE /\ listeners' = listeners \cup {Handler(t, EndEvent(op))}
          /\ waits' = [waits EXCEPT ![t] = [pc |-> "wait", op |-> op,
                                            sessid |-> sessid,
                                            event |-> FALSE]]
          /\ Called(op, sessid)
  /\ UNCHANGED <<NoListening, heap, sessions, default_session>>

\* the same call without session argument: session = SessionManager.get()
WaitWhileSpeaking(p, t) ==
  LET sess == heap[p][get(SM(p), NoMsg, cfg[p], now).ret]
  IN WaitWhile(p, t, "wait_while_speaking", sess.session_id, sess.is_speaking)

\* the messages that report the end of output or recording
EndMessages(op) ==
  { <<Message(EndEvent(op), EmptyDict, c)>> :
      c \in {EmptyDict, [session |-> SD("X")], [session |-> SD("default")]} }

\* handle_output_end / handle_rec_end of thread t, called by the emitter
\* for the message mo
HandleEnd(p, t, mo) ==
  /\ waits[t].op \in WaitOps
  /\ Handler(t, EndEvent(waits[t].op)) \in listeners
  /\ mo \in EndMessages(waits[t].op)
  /\ CanFromMessage(SM(p), mo)
  /\ LET g == get(SM(p), mo, cfg[p], now)
     IN /\ SetSM(p, g.sm, {held[p].ref})
        /\ waits' = [waits EXCEPT ![t].event =
                       @ \/ waits[t].sessid = g.sm.heap[g.ret].session_id]
  /\ Called("handle_end", MsgSid(mo))
  /\ UNCHANGED <<NoListening, listeners>>

\* event.wait(timeout) returns, the event set or the timeout elapsed, and
\* the handler is removed
WaitReturn(p, t) ==
  /\ waits[t].op \in WaitOps
  /\ waits[t].pc = "wait"
  /\ listeners' = wait_remove(listeners, t, waits[t])
  /\ waits' = [waits EXCEPT ![t] = NoWait]
  /\ Called(waits[t].op \o ".return",
            IF waits[t].event THEN "end" ELSE "timeout")
  /\ UNCHANGED <<NoListening, heap, sessions, default_session>>

Listening(p) ==
  \/ OnOpen(p)
  \/ ConnectToBus(p)
  \/ Send(p)
  \/ \E speaking \in BOOLEAN : HandleAudioOutput(p, speaking)
  \/ \E t \in Threads, op \in WaitOps, sessid \in {"default", "X"}, active \in BOOLEAN : WaitWhile(p, t, op, sessid, active)
  \/ \E t \in Threads : WaitWhileSpeaking(p, t)
  \/ \E t \in Threads, op \in WaitOps : \E mo \in EndMessages(op) : HandleEnd(p, t, mo)
  \/ \E t \in Threads : WaitReturn(p, t)

\* every timeout elapses
NextListen == Listening("A")
FairListen == \A t \in Threads : WF_vars(WaitReturn("A", t))
SpecListen == Init /\ [][NextListen]_vars /\ FairListen

(* ------------------- from_message for any wire message ----------------- *)
\* JSON null as the value of a key (None in Python); dicts of the model do
\* not use the key python_type
JsonNull == [python_type |-> "NoneType"]
IsDict(v) == ~Has(v, "python_type")

\* the exception that leaves Session.from_message, "" when it returns:
\* `"lang" not in sess` needs a container
from_message_raised(mo) ==
  IF mo # NoMsg /\ Has(mo[1].context, "session")
     /\ ~IsDict(mo[1].context["session"])
  THEN "TypeError"
  ELSE ""

\* sess = Session.from_message(message) for any message
FromMessageAny(p, mo) ==
  IF from_message_raised(mo) # ""
  THEN /\ Called("from_message.raise", from_message_raised(mo))
       /\ UNCHANGED <<cfg, aux, thr, lock, now, heap, sessions, default_session, bus, client_session_id, held, rx, dispatch, sent, inbox, connected>>
  ELSE FromMessage(p, mo)

\* messages as Message.deserialize builds them from frames: with and
\* without lang in data and context, with a full, partial, empty or null
\* session
WireMessages ==
  {NoMsg} \cup
  { <<Message("speak", d, c)>> :
      d \in {EmptyDict, [lang |-> "en-us"]},
      c \in { EmptyDict, [lang |-> "pt-pt"],
              [session |-> SD("X")], [session |-> SD("default")],
              [session |-> [session_id |-> "X"]],
              [session |-> [session_id |-> "X"], lang |-> "pt-pt"],
              [session |-> EmptyDict],
              [session |-> JsonNull] } }

Resolving(p) ==
  \/ \E mo \in WireMessages : FromMessageAny(p, mo)
  \/ \E md \in BOOLEAN : Update(p, md)
  \/ ResetDefaultSession(p)

NextResolve == Tick \/ Resolving("A")
SpecResolve == Init /\ [][NextResolve]_vars

(* --------------------- Session round trip and expiry ------------------- *)
\* an intent context with one frame that holds one entity
OneFrameContext ==
  IntentContextManager(60, << <<IntentContextManagerFrame(<< [data |-> [str |-> "color"], key |-> "red", confidence |-> 1, origin |-> "o1"] >>, [turn |-> "1"]), 0>> >>)

\* the sessions Session(...) builds in process p at time 0
BuiltSessions(p) ==
  { Session_init(sid, exp, act, o[1], o[2], ctx, o[3], pipe, FALSE, <<>>, cfg[p], 0, "u1") :
      sid \in {"X", "default"}, exp \in {0, 60},
      act \in {<<>>, << <<"sk1", 0>>, <<"sk2", 0>> >>, << <<"sk2", 0>>, <<"sk1", 0>> >>},
      o \in {<<EmptyDict, "", "">>, <<[sk1 |-> "response"], "en-us", "kitchen">>},
      ctx \in {<<>>, OneFrameContext},
      pipe \in {<<>>, <<"a", "b", "c">>} }

\* Session.deserialize(s.serialize()) in process p
SessionRoundTrip(p, s) ==
  /\ io' = [value |-> Session_serialize(s),
            result |-> Session_deserialize(Session_serialize(s), cfg[p], now, "u1")]
  /\ Called("session_roundtrip", s.session_id)
  /\ UNCHANGED NoCodec

SessionCoding(p) == \E s \in BuiltSessions(p) : SessionRoundTrip(p, s)

NextSession == Tick \/ SessionCoding("A")
SpecSession == Init /\ [][NextSession]_vars

\* sess.expired() on the session the caller holds; the clock is
\* int(time.time())
Expired(p) ==
  /\ held[p].ref # NoRef
  /\ Called("expired",
            IF expired(heap[p][held[p].ref], now) THEN "True" ELSE "False")
  /\ UNCHANGED <<cfg, aux, thr, lock, now, heap, sessions, default_session,
                 bus, client_session_id, held, rx, dispatch, sent, inbox,
                 connected>>

\* sessions are built, touched and asked whether they expired
Expiring(p) ==
  \/ \E e \in {0, 1} : NewSession(p, "X", e)
  \/ GetSession(p, NoMsg)
  \/ Touch(p)
  \/ Expired(p)

NextExpiry == Tick \/ Expiring("A")
SpecExpiry == Init /\ [][NextExpiry]_vars

(* ---------------------------- active skills ---------------------------- *)
\* the skill ids callers activate and deactivate
SkillIds == {"sk1", "sk2", "sk3"}

\* sess.is_active(k) on the session the caller holds
IsActive(p, k) ==
  /\ held[p].ref # NoRef
  /\ Called(IF is_active(heap[p][held[p].ref], k) THEN "is_active:True"
                                                  ELSE "is_active:False", k)
  /\ UNCHANGED <<cfg, aux, thr, lock, now, heap, sessions, default_session,
                 bus, client_session_id, held, rx, dispatch, sent, inbox,
                 connected>>

\* skills of the default session are activated, deactivated and looked up
Activating(p) ==
  \/ GetSession(p, NoMsg)
  \/ \E k \in SkillIds : ActivateSkill(p, k)
  \/ \E k \in SkillIds : DeactivateSkill(p, k)
  \/ \E k \in SkillIds : IsActive(p, k)

NextSkills == Tick \/ Activating("A")
SpecSkills == InitWith({[p \in Procs |-> FirstConfig]}) /\ [][NextSkills]_vars

(* --------------------------- dig_for_message --------------------------- *)
MaxFrames == 2     \* caller frames on the stack

\* values of local variables: two Message objects and a plain dict
MessageValue(n) == [python_type |-> "Message", name |-> n]
DictValue == [python_type |-> "dict"]
\* isinstance(v, Message)
IsMessage(v) == v.python_type = "Message"

\* list[:n]
SliceTo(seq, n) ==
  IF n >= 0 THEN SubSeq(seq, 1, IF n < Len(seq) THEN n ELSE Len(seq))
  ELSE SubSeq(seq, 1, IF Len(seq) + n > 0 THEN Len(seq) + n ELSE 0)

\* the loop over args.args of one record from argument i on: done is false
\* when the loop ends without leaving the function
RECURSIVE DigArgs(_, _)
DigArgs(frame, i) ==
  IF i > Len(frame.args) THEN [done |-> FALSE, raised |-> "", ret |-> JsonNull]
  ELSE IF ~Has(frame.locals, frame.args[i])
       THEN [done |-> TRUE, raised |-> "KeyError", ret |-> JsonNull]
       ELSE IF IsMessage(frame.locals[frame.args[i]])
            THEN [done |-> TRUE, raised |-> "", ret |-> frame.locals[frame.args[i]]]
            ELSE DigArgs(frame, i + 1)

\* the loop over the records of the stack from record i on, and the
\* return None after it
RECURSIVE DigRecords(_, _)
DigRecords(stack, i) ==
  IF i > Len(stack) THEN [done |-> TRUE, raised |-> "", ret |-> JsonNull]
  ELSE IF DigArgs(stack[i], 1).done THEN DigArgs(stack[i], 1)
       ELSE DigRecords(stack, i + 1)

\* dig_for_message(max_records); callers is inspect.stack()[1:], the frame
\* of the caller first
dig_for_message(callers, max_records) ==
  DigRecords(IF Len(callers) <= max_records THEN callers
             ELSE SliceTo(callers, max_records), 1)

\* frames of callers: args are the named arguments in declaration order,
\* locals the variables that are bound. A function without arguments and a
\* Message in a local variable; f(message); f(_) called with a dict;
\* f(a, message) with two Messages; f(a, message) with a dict and a Message;
\* f(message) after `del message`
Frames ==
  { [args |-> <<>>, locals |-> [msg |-> MessageValue("m1")]],
    [args |-> <<"message">>, locals |-> [message |-> MessageValue("m1")]],
    [args |-> <<"_">>, locals |-> [_ |-> DictValue]],
    [args |-> <<"a", "message">>, locals |-> [a |-> MessageValue("m2"), message |-> MessageValue("m1")]],
    [args |-> <<"a", "message">>, locals |-> [a |-> DictValue, message |-> MessageValue("m1")]],
    [args |-> <<"message">>, locals |-> [msg |-> DictValue]] }

\* the stacks of at most MaxFrames callers
Stacks == UNION {[1..n -> Frames] : n \in 0..MaxFrames}

\* dig_for_message(max_records) below the callers
Dig(callers, max_records) ==
  /\ io' = [value |-> <<callers, max_records>>,
            result |-> dig_for_message(callers, max_records)]
  /\ Called("dig_for_message", "")
  /\ UNCHANGED NoCodec

NextDig == \E callers \in Stacks, max_records \in 0..MaxFrames : Dig(callers, max_records)
SpecDig == InitWith({[p \in Procs |-> FirstConfig]}) /\ [][NextDig]_vars

(* ---------------------------- intent context --------------------------- *)
MaxStack == 3      \* entities in the frame stack of a context

\* one process whose default session has an intent context; its timeout is
\* the context.timeout of the configuration, one second or two minutes
InitContext ==
  /\ cfg = [p \in Procs |-> FirstConfig]
  /\ now = 0
  /\ \E timeout \in {1, 120} :
        heap = [p \in Procs |->
                 1 :> Session_init("default", 0, <<>>, EmptyDict, "",
                                   IntentContextManager(timeout, <<>>), "", <<>>,
                                   FALSE, <<>>, cfg[p], 0, "u0")]
  /\ sessions = [p \in Procs |-> "default" :> 1]
  /\ default_session = [p \in Procs |-> 1]
  /\ bus = [p \in Procs |-> FALSE]
  /\ client_session_id = [p \in Procs |-> "default"]
  /\ held = [p \in Procs |-> NoHeld]
  /\ rx = [p \in Procs |-> NoMsg]
  /\ dispatch = [p \in Procs |-> <<>>]
  /\ sent = [p \in Procs |-> <<>>]
  /\ inbox = [p \in Procs |-> <<>>]
  /\ connected = [p \in Procs |-> FALSE]
  /\ thr = [t \in Threads |-> Idle]
  /\ lock = ""
  /\ mem = NoMem
  /\ websocket = NoSecret
  /\ io = NoIO
  /\ started_running = [p \in Procs |-> FALSE]
  /\ listeners = {}
  /\ waits = [t \in Threads |-> NoWait]
  /\ lastOp = "init" /\ lastArg = ""

\* SessionManager.default_session.context in process p
Context(p) == heap[p][default_session[p]].context

\* the number of entities in the frames of a stack
RECURSIVE Entities(_)
Entities(frame_stack) ==
  IF frame_stack = <<>> THEN 0
  ELSE Len(frame_stack[1][1].entities) + Entities(Tail(frame_stack))

\* entities as Adapt tags them, data a list of (value, tag), and as the
\* docstring of inject_context gives them, data the tag as a str
RedEntity == [data |-> [list |-> << <<"red", "color">> >>], key |-> "red", confidence |-> 1, origin |-> "o1"]
BlueEntity == [data |-> [list |-> << <<"blue", "color">> >>], key |-> "blue", origin |-> ""]
GreenEntity == [data |-> [str |-> "color"], key |-> "green", confidence |-> 1, origin |-> "o1"]

\* metadata of a call: none, a turn, another turn, a key whose value is None
Metadatas == {EmptyDict, [turn |-> "1"], [turn |-> "2"], [topic |-> None]}

\* context.inject_context(entity, metadata)
InjectContext(p, entity, metadata) ==
  /\ Entities(Context(p).frame_stack) < MaxStack
  /\ heap' = [heap EXCEPT ![p][default_session[p]].context =
                 inject_context(@, entity, metadata, now)]
  /\ Called("inject_context", entity["key"])
  /\ UNCHANGED <<cfg, aux, thr, lock, now, sessions, default_session, bus,
                 client_session_id, held, rx, dispatch, sent, inbox, connected>>

\* context.remove_context(context_id)
RemoveContext(p, context_id) ==
  /\ heap' = [heap EXCEPT ![p][default_session[p]].context =
                 remove_context(@, context_id)]
  /\ Called("remove_context", context_id)
  /\ UNCHANGED <<cfg, aux, thr, lock, now, sessions, default_session, bus,
                 client_session_id, held, rx, dispatch, sent, inbox, connected>>

\* context.get_context(max_frames, missing_entities)
GetContext(p, max_frames, missing_entities) ==
  /\ io' = [value |-> <<max_frames, missing_entities>>,
            result |-> get_context(Context(p), max_frames, missing_entities, now)]
  /\ heap' = [heap EXCEPT ![p][default_session[p]].context =
                 get_context_after(@, max_frames, now)]
  /\ Called("get_context", "")
  /\ UNCHANGED <<cfg, now, sessions, default_session, bus, client_session_id, held, rx, dispatch, sent, inbox, connected, thr, lock, mem, websocket, started_running, listeners, waits>>

\* entities are injected into the context and contexts removed
Injecting(p) ==
  \/ \E entity \in {RedEntity, GreenEntity}, metadata \in Metadatas : InjectContext(p, entity, metadata)
  \/ \E context_id \in {"color", "col", "size"} : RemoveContext(p, context_id)

NextInject == Injecting("A")
SpecInject == InitContext /\ [][NextInject]_vars

\* the lists of tags a caller is missing
MissingEntities == {<<>>, <<"color">>, <<"size">>}

\* a context is built over time, then read
Reading(p) ==
  \/ /\ io = NoIO
     /\ \E entity \in {RedEntity, BlueEntity, GreenEntity}, metadata \in {EmptyDict, [turn |-> "1"]} : InjectContext(p, entity, metadata)
  \/ \E max_frames \in {0, 1}, missing_entities \in MissingEntities : GetContext(p, max_frames, missing_entities)

NextGetContext == Tick \/ Reading("A")
SpecGetContext == InitContext /\ [][NextGetContext]_vars

(* ------------------------- confidence and depth ------------------------ *)
\* entities with three tags from two origins and from no origin
DecayEntities ==
  { [data |-> [list |-> << <<"v", tag>> >>], key |-> tag, confidence |-> 1, origin |-> origin] :
      tag \in {"color", "size", "shape"}, origin \in {"o1", "o2", ""} }

\* a context is built, then read whole
Decaying(p) ==
  \/ /\ io = NoIO
     /\ \E entity \in DecayEntities, metadata \in {EmptyDict, [turn |-> "1"]} : InjectContext(p, entity, metadata)
  \/ GetContext(p, 0, <<>>)

NextDecay == Decaying("A")
SpecDecay == InitContext /\ [][NextDecay]_vars

(* ---------------------------- EventScheduler --------------------------- *)
MaxEvents == 2     \* entries in the schedule of an EventScheduler

\* the event names of the schedule, in the order the dict holds them
EventNames == <<"e1", "e2">>

abs(x) == IF x < 0 THEN 0 - x ELSE x

\* repeat_time at time t: one pass of the loop brings next_time to t + |r|
repeat_time(sched_time, repeat, t) ==
  IF sched_time + repeat < t THEN t + abs(repeat) ELSE sched_time + repeat

\* the entries (t, r, d, c) of a list that satisfy t <= current_time, or
\* t > current_time, in order
passed(e, t) == SelectSeq(e, LAMBDA x : x[1] <= t)
remaining(e, t) == SelectSeq(e, LAMBDA x : x[1] > t)

\* the loop over passed for one event: the messages to emit
Triggered(event, e, t) ==
  [i \in DOMAIN passed(e, t) |-> Message(event, passed(e, t)[i][3], passed(e, t)[i][4])]

\* the loop over passed for one event: the new trigger times of the
\* repeating entries (repeat is 0 for None)
Repeated(e, t) ==
  LET rep == SelectSeq(passed(e, t), LAMBDA x : x[2] # 0)
  IN [i \in DOMAIN rep |->
        <<repeat_time(rep[i][1], rep[i][2], t), rep[i][2], rep[i][3], rep[i][4]>>]

\* the messages of check_state for the event names from index i on
RECURSIVE pending_messages(_, _, _)
pending_messages(events, t, i) ==
  IF i > Len(EventNames) THEN <<>>
  ELSE (IF Has(events, EventNames[i])
        THEN Triggered(EventNames[i], events[EventNames[i]], t) ELSE <<>>)
       \o pending_messages(events, t, i + 1)

\* check_state that drops the repeating entries it has triggered
check_state_no_repeat(events, t) ==
  [event \in DOMAIN events |-> remaining(events[event], t)]

\* EventScheduler.check_state, the block under event_lock: self.events after
\* it
check_state(events, t) ==
  [event \in DOMAIN events |->
     remaining(events[event], t) \o Repeated(events[event], t)]

\* EventScheduler.clear_empty
clear_empty(events) ==
  [event \in {k \in DOMAIN events : events[k] # <<>>} |-> events[event]]

\* EventScheduler.schedule_event; data is << >> for None
schedule_event(events, event, sched_time, repeat, data, context) ==
  IF repeat # 0 /\ Has(events, event) THEN events
  ELSE Put(events, event,
           Append(Get(events, event, <<>>), <<sched_time, repeat, data, context>>))

\* EventScheduler.update_event
update_event(events, event, data) ==
  IF Len(Get(events, event, <<>>)) > 0
  THEN [events EXCEPT ![event][1] = <<@[1], @[2], data, @[4]>>]
  ELSE events

\* EventScheduler.schedule_event_handler
schedule_event_handler(events, message) ==
  IF Get(message.data, "event", "") # "" /\ Get(message.data, "time", 0) # 0
  THEN schedule_event(events, message.data["event"], message.data["time"],
                      Get(message.data, "repeat", 0),
                      Get(message.data, "data", <<>>), message.context)
  ELSE events

\* EventScheduler.update_event_handler
update_event_handler(events, message) ==
  update_event(events, Get(message.data, "event", ""), Get(message.data, "data", <<>>))

\* the bus calls the handlers EventScheduler.__init__ has registered for the
\* type of the message; remove_event and get_event are not in the model
dispatch_message(events, message) ==
  IF message.msg_type = "mycroft.scheduler.schedule_event"
  THEN schedule_event_handler(events, message)
  ELSE IF message.msg_type = "mycroft.scheduler.update_event"
       THEN update_event_handler(events, message)
       ELSE events

\* EventSchedulerInterface._create_unique_name
create_unique_name(skill_id, name) == skill_id \o ":" \o name

\* the message EventSchedulerInterface._schedule_event emits; when is the
\* epoch time, repeat_interval 0 for None
iface_schedule_event(skill_id, name, when, data, repeat_interval) ==
  Message("mycroft.scheduler.schedule_event",
          [time |-> when, event |-> create_unique_name(skill_id, name),
           repeat |-> repeat_interval, data |-> data],
          [skill_id |-> skill_id])

\* the message EventSchedulerInterface.update_scheduled_event emits
update_scheduled_event(skill_id, name, data) ==
  Message("mycroft.schedule.update_event",
          [event |-> create_unique_name(skill_id, name), data |-> data],
          [skill_id |-> skill_id])

\* everything but the EventScheduler object, which is in mem, and the clock
NoSched == <<cfg, heap, sessions, default_session, bus, client_session_id, held, rx, dispatch, sent, inbox, connected, thr, lock, websocket, io, started_running, listeners, waits>>

\* the number of entries in the schedule
RECURSIVE Scheduled(_, _)
Scheduled(events, i) ==
  IF i > Len(EventNames) THEN 0
  ELSE Len(Get(events, EventNames[i], <<>>)) + Scheduled(events, i + 1)

\* EventScheduler.__init__ up to the registration of the handlers: ctor is
\* the position of the constructing thread, thread that of the scheduler
\* thread, stopping the Event _stopping ("none" before it exists), queue the
\* messages the bus has not yet delivered
Construct(autostart) ==
  /\ mem = NoMem
  /\ mem' = [ctor |-> "registered", autostart |-> autostart,
             thread |-> "unstarted", stopping |-> "none", events |-> <<>>,
             pending_messages |-> <<>>, emitted |-> <<>>, queue |-> <<>>]
  /\ Called("EventScheduler", "")
  /\ UNCHANGED <<NoSched, now>>

\* `if autostart: self.start()` : start returns when the thread runs
CtorStart ==
  /\ mem # NoMem /\ mem.ctor = "registered" /\ mem.autostart
  /\ mem' = [mem EXCEPT !.ctor = "started", !.thread = "waiting"]
  /\ Called("start", "")
  /\ UNCHANGED <<NoSched, now>>

\* `self._stopping = Event()`, the last statement of __init__
CtorStopping ==
  /\ mem # NoMem
  /\ mem.ctor = (IF mem.autostart THEN "started" ELSE "registered")
  /\ mem' = [mem EXCEPT !.ctor = "done", !.stopping = "clear"]
  /\ Called("_stopping", "")
  /\ UNCHANGED <<NoSched, now>>

\* scheduler.start() by the owner of a scheduler built with autostart=False
Start ==
  /\ mem # NoMem /\ mem.ctor = "done" /\ mem.thread = "unstarted"
  /\ mem' = [mem EXCEPT !.thread = "waiting"]
  /\ Called("start", "")
  /\ UNCHANGED <<NoSched, now>>

\* run: `while not self._stopping.wait(0.5)`; the attribute does not exist
\* before __init__ has assigned it, and the AttributeError ends the thread
RunWait ==
  /\ mem # NoMem /\ mem.thread = "waiting"
  /\ mem' = [mem EXCEPT !.thread = IF mem.stopping = "none" THEN "dead"
                                   ELSE IF mem.stopping = "set" THEN "stopped"
                                   ELSE "check_state"]
  /\ Called("run", "")
  /\ UNCHANGED <<NoSched, now>>

\* check_state: the block under event_lock
CheckState ==
  /\ mem # NoMem /\ mem.thread = "check_state"
  /\ mem' = [mem EXCEPT !.thread = "clear_empty",
                        !.pending_messages = pending_messages(mem.events, now, 1),
                        !.events = check_state(mem.events, now)]
  /\ Called("check_state", "")
  /\ UNCHANGED <<NoSched, now>>

\* check_state: self.clear_empty(), which takes event_lock again
ClearEmpty ==
  /\ mem # NoMem /\ mem.thread = "clear_empty"
  /\ mem' = [mem EXCEPT !.thread = "emit", !.events = clear_empty(mem.events)]
  /\ Called("clear_empty", "")
  /\ UNCHANGED <<NoSched, now>>

\* check_state: the loop of self.bus.emit(msg); emitted keeps the messages
\* of the last check_state
EmitPending ==
  /\ mem # NoMem /\ mem.thread = "emit"
  /\ mem' = [mem EXCEPT !.thread = "waiting", !.emitted = mem.pending_messages,
                        !.pending_messages = <<>>]
  /\ Called("emit", "")
  /\ UNCHANGED <<NoSched, now>>

\* scheduler.schedule_event(event, sched_time, repeat, data) by another
\* thread, under event_lock
ScheduleEvent(event, sched_time, repeat, data) ==
  /\ mem # NoMem /\ mem.ctor = "done"
  /\ Scheduled(mem.events, 1) < MaxEvents
  /\ mem' = [mem EXCEPT !.events =
               schedule_event(@, event, sched_time, repeat, OrSeq(data, EmptyDict), EmptyDict)]
  /\ Called("schedule_event", event)
  /\ UNCHANGED <<NoSched, now>>

\* the scheduler thread and a thread that schedules events for the second
\* before, the current second and the next
Scheduling ==
  \/ \E autostart \in BOOLEAN : Construct(autostart)
  \/ CtorStart
  \/ CtorStopping
  \/ Start
  \/ RunWait
  \/ CheckState
  \/ ClearEmpty
  \/ EmitPending
  \/ \E i \in DOMAIN EventNames, sched_time \in {now - 1, now, now + 1}, repeat \in {0, 1, -1} : ScheduleEvent(EventNames[i], sched_time, repeat, [k |-> "v"])

NextSched == Scheduling
SpecSched == InitWith({[p \in Procs |-> FirstConfig]}) /\ [][NextSched]_vars

(* --------------- EventSchedulerInterface on a shared bus ---------------- *)
\* the skill, the event names and the data of the interface's calls
SkillId == "skill"
IfaceNames == {"a", "b"}
IfaceData == {[k |-> "new"], [k |-> "newer"]}

\* EventSchedulerInterface._schedule_event(handler, when, data, name,
\* repeat_interval): the message goes to the bus
IfaceScheduleEvent(name, when, data, repeat_interval) ==
  /\ mem # NoMem /\ mem.ctor = "done"
  /\ Len(mem.queue) < MaxQueue
  /\ mem' = [mem EXCEPT !.queue =
               Append(@, iface_schedule_event(SkillId, name, when, data, repeat_interval))]
  /\ Called("_schedule_event", name)
  /\ UNCHANGED <<NoSched, now>>

\* EventSchedulerInterface.update_scheduled_event(name, data)
UpdateScheduledEvent(name, data) ==
  /\ mem # NoMem /\ mem.ctor = "done"
  /\ Len(mem.queue) < MaxQueue
  /\ mem' = [mem EXCEPT !.queue =
               Append(@, update_scheduled_event(SkillId, name, OrSeq(data, EmptyDict)))]
  /\ Called("update_scheduled_event", name)
  /\ UNCHANGED <<NoSched, now>>

\* the bus delivers its oldest message to the handlers the EventScheduler
\* has registered for its type
DeliverScheduler ==
  /\ mem # NoMem /\ mem.queue # <<>>
  /\ mem' = [mem EXCEPT !.queue = Tail(@),
                        !.events = dispatch_message(@, Head(mem.queue))]
  /\ Called("deliver", Head(mem.queue).msg_type)
  /\ UNCHANGED <<NoSched, now>>

\* an EventScheduler and an EventSchedulerInterface on one bus
Interfacing ==
  \/ Construct(FALSE)
  \/ CtorStopping
  \/ \E name \in IfaceNames, repeat_interval \in {0, 1} :
       /\ mem # NoMem
       /\ Len(Get(mem.events, create_unique_name(SkillId, name), <<>>)) < MaxEvents
       /\ IfaceScheduleEvent(name, now + 1, [k |-> "old"], repeat_interval)
  \/ \E name \in IfaceNames, data \in IfaceData : UpdateScheduledEvent(name, data)
  \/ DeliverScheduler

NextIface == Interfacing
SpecIface == InitWith({[p \in Procs |-> FirstConfig]}) /\ [][NextIface]_vars

(* ------------------ speaking state of a remote session ------------------ *)
\* the messages that report the start and the end of audio output for the
\* session X
OutputMessage(speaking) ==
  <<Message(IF speaking THEN "recognizer_loop:audio_output_start"
            ELSE "recognizer_loop:audio_output_end",
            EmptyDict, [session |-> SD("X")])>>

\* on_message, get and the handlers below never read the Session their
\* message's id is registered under, and they replace it: when the registry
\* holds the only reference to it, the new Session takes its place in memory
Replaced(sm, mo) ==
  LET sid == MsgSid(mo)
  IN IF /\ Has(sm.sessions, sid)
        /\ sid # "default"
        /\ sm.sessions[sid] # sm.default_session
        /\ \A k \in DOMAIN sm.sessions : sm.sessions[k] = sm.sessions[sid] => k = sid
     THEN [sm EXCEPT !.heap = Restrict(@, DOMAIN @ \ {sm.sessions[sid]})]
     ELSE sm

\* SessionManager.handle_audio_output_start / handle_audio_output_end for
\* the message mo, called by the emitter of the bus connect_to_bus has
\* registered them on
HandleAudioOutputFor(p, mo, speaking) ==
  /\ bus[p]
  /\ held[p].ref = NoRef
  /\ CanFromMessage(Replaced(SM(p), mo), mo)
  /\ SetSM(p, handle_audio_output(Replaced(SM(p), mo), mo, speaking, cfg[p], now), {})
  /\ Called(IF speaking THEN "handle_audio_output_start"
            ELSE "handle_audio_output_end", MsgSid(mo))
  /\ UNCHANGED <<NoListening, listeners, waits>>

\* MessageBusClient.on_message for a frame of another type
OnMessageFor(p, frame) ==
  LET parsed == Message_deserialize(frame)
  IN /\ held[p].ref = NoRef
     /\ CanFromMessage(Replaced(SM(p), <<parsed>>), <<parsed>>)
     /\ HasHandler(p, parsed.msg_type) => Len(dispatch[p]) < MaxQueue
     /\ SetSM(p, on_message(Replaced(SM(p), <<parsed>>), parsed, cfg[p], now), {})
     /\ dispatch' = [dispatch EXCEPT ![p] =
                       emitter_emit(p, @, from_message_msg(parsed))]
     /\ Called("on_message", MsgSid(<<parsed>>))
     /\ UNCHANGED <<cfg, aux, thr, lock, now, bus, client_session_id, held, rx, sent,
                    connected, inbox>>

\* SessionManager.get(message) by a caller that drops the result
GetFor(p, mo) ==
  /\ held[p].ref = NoRef
  /\ CanFromMessage(Replaced(SM(p), mo), mo)
  /\ SetSM(p, get(Replaced(SM(p), mo), mo, cfg[p], now).sm, {})
  /\ Called("get", MsgSid(mo))
  /\ UNCHANGED <<NoListening, listeners, waits>>

\* the state tracking handlers, and the other messages of the bus that reach
\* on_message or SessionManager.get
Speaking(p) ==
  \/ OnOpen(p)
  \/ ConnectToBus(p)
  \/ Send(p)
  \/ \E speaking \in BOOLEAN : HandleAudioOutputFor(p, OutputMessage(speaking), speaking)
  \/ \E f \in SpeakFrames : OnMessageFor(p, f)
  \/ \E mo \in InMessages : GetFor(p, mo)
  \/ Tick /\ UNCHANGED inbox

NextSpeaking == Speaking("A")
SpecSpeaking == Init /\ [][NextSpeaking]_vars

(* ------------------------------ claims -------------------------------- *)
\* keys other than "default" map to the same objects before and after
OtherEntriesUnchanged(p) ==
  \A k \in ((DOMAIN sessions[p]) \cup (DOMAIN sessions'[p])) \ {"default"} :
     /\ k \in DOMAIN sessions[p]
     /\ k \in DOMAIN sessions'[p]
     /\ sessions'[p][k] = sessions[p][k]

\* C1: after any sequence of update, get, touch, reset_default_session,
\* on_message and on_default_session_update calls, executed one at a time,
\* the registry has the key "default", sessions["default"] is the very
\* object default_session, and that object's session_id is "default".
C1_DefaultIsRegistered ==
  /\ "default" \in DOMAIN sessions["A"]
  /\ sessions["A"]["default"] = default_session["A"]
  /\ heap["A"][default_session["A"]].session_id = "default"

\* a session registered under "X" has been made the default by update
C1_Witness ==
  /\ lastOp = "update_make_default"
  /\ "X" \in DOMAIN sessions["A"]
  /\ sessions["A"]["X"] = default_session["A"]

\* C6: update(s, make_default=True), also when reached through
\* on_default_session_update for session_data with any id X, ends with
\* s.session_id = "default", default_session is s, sessions["default"] is s,
\* and no entry under another key is created or changed.
C6_Post(r) ==
  /\ heap'["A"][r].session_id = "default"
  /\ default_session'["A"] = r
  /\ "default" \in DOMAIN sessions'["A"]
  /\ sessions'["A"]["default"] = r
  /\ OtherEntriesUnchanged("A")
C6_MakeDefault ==
  [][ /\ Update("A", TRUE) => C6_Post(held["A"].ref)
      /\ \A i \in 1..MaxQueue :
           OnDefaultSessionUpdate("A", i) => C6_Post(NewRef(heap["A"])) ]_vars

\* session_data with id "X" has been applied and no "X" entry exists
C6_Witness ==
  /\ lastOp = "on_default_session_update"
  /\ lastArg = "X"
  /\ "X" \notin DOMAIN sessions["A"]

\* C7: get(message) stores the session a message resolves to under its id
\* X when X is not "default", returns it and leaves default_session alone;
\* when the message resolves to "default", or there is no message, it
\* returns the current default_session object and leaves the registry
\* unchanged.
C7_ResolvesToDefault(mo) ==
  \/ mo = NoMsg
  \/ ~Has(mo[1].context, "session")
  \/ Get(mo[1].context["session"], "session_id", "") = "default"
C7_Get ==
  [][ \A mo \in InMessages :
        GetSession("A", mo) =>
          LET r == held'["A"].ref
          IN IF C7_ResolvesToDefault(mo)
             THEN /\ r = default_session["A"]
                  /\ sessions'["A"] = sessions["A"]
                  /\ default_session'["A"] = default_session["A"]
             ELSE /\ r \notin DOMAIN heap["A"]
                  /\ heap'["A"][r].session_id \in DOMAIN sessions'["A"]
                  /\ sessions'["A"][heap'["A"][r].session_id] = r
                  /\ heap'["A"][r].session_id # "default"
                  /\ \A k \in (DOMAIN sessions["A"]) \ {heap'["A"][r].session_id} :
                       k \in DOMAIN sessions'["A"]
                         /\ sessions'["A"][k] = sessions["A"][k]
                  /\ default_session'["A"] = default_session["A"] ]_vars

\* get on a message of session "X" returned the object now registered
C7_Witness ==
  /\ lastOp = "get"
  /\ lastArg = "X"
  /\ "X" \in DOMAIN sessions["A"]
  /\ sessions["A"]["X"] = held["A"].ref

\* get on a message of session "default" returned the default object
C7_WitnessDefault ==
  /\ lastOp = "get"
  /\ lastArg = "default"
  /\ held["A"].ref = default_session["A"]

\* C2: prune_sessions removes exactly the entries that are expired and not
\* the default: afterwards "default" is still registered, every session
\* that is not expired is still registered, and every expired session
\* other than the default is gone.
C2_PruneExact ==
  [][ PruneSessions("A") =>
        /\ "default" \in DOMAIN sessions'["A"]
        /\ \A k \in DOMAIN sessions["A"] :
             IF expired(heap["A"][sessions["A"][k]], now) /\ k # "default"
             THEN k \notin DOMAIN sessions'["A"]
             ELSE k \in DOMAIN sessions'["A"]
                    /\ sessions'["A"][k] = sessions["A"][k] ]_vars

\* C4: for a message whose context carries a session with id "default", no
\* sequence of from_message / get on it followed by mutators of the
\* returned session changes which object is default_session.
C4_DefaultNotReplaced ==
  [][ /\ \A mo \in HandledMessages :
           (MsgSid(mo) = "default"
              /\ (GetSession("A", mo) \/ FromMessage("A", mo)))
             => default_session'["A"] = default_session["A"]
      /\ (held["A"].msg_default /\ Mutator("A"))
             => default_session'["A"] = default_session["A"] ]_vars

\* C5 as stated: on_message, for an inbound message whose context session
\* has a non-default id X, stores that session as sessions[X] before any
\* handler of the message type is dispatched; for a message of session
\* "default" or without session it changes neither the registry nor
\* default_session.
C5_Stored(X) ==
  /\ X \in DOMAIN sessions'["A"]
  /\ sessions'["A"][X] \notin DOMAIN heap["A"]
  /\ heap'["A"][sessions'["A"][X]].session_id = X
  /\ \A k \in (DOMAIN sessions["A"]) \ {X} :
       k \in DOMAIN sessions'["A"] /\ sessions'["A"][k] = sessions["A"][k]
  /\ default_session'["A"] = default_session["A"]
  /\ dispatch'["A"] = dispatch["A"]
C5_Untouched ==
  /\ sessions'["A"] = sessions["A"]
  /\ default_session'["A"] = default_session["A"]
C5_DispatchFollows ==
  dispatch'["A"] # dispatch["A"] /\ Len(dispatch'["A"]) > Len(dispatch["A"])
    => rx["A"] # NoMsg /\ OnMessageEmit("A")
C5_StoreBeforeDispatch_AsStated ==
  [][ /\ \A f \in ReceivedFrames :
           OnMessageUpdate("A", f) =>
             LET X == MsgSid(<<Message_deserialize(f)>>)
             IN IF X \in {"default", "<nosession>"}
                THEN C5_Untouched
                ELSE C5_Stored(X)
      /\ C5_DispatchFollows ]_vars

\* C5: on_message, for an inbound message whose context session has a
\* non-empty, non-default id X, stores a new session of id X as sessions[X]
\* (other entries and default_session unchanged) before any handler of the
\* message type is dispatched; a session with an empty id is stored under a
\* fresh uuid instead; for a message of session "default" or without
\* session it changes neither the registry nor default_session.
C5_StoreBeforeDispatch ==
  [][ /\ \A f \in ReceivedFrames :
           OnMessageUpdate("A", f) =>
             LET X == MsgSid(<<Message_deserialize(f)>>)
             IN IF X \in {"default", "<nosession>"}
                THEN C5_Untouched
                ELSE IF X = ""
                THEN /\ "" \notin DOMAIN sessions'["A"]
                     /\ C5_Stored(uuid4(SM("A")))
                ELSE C5_Stored(X)
      /\ C5_DispatchFollows ]_vars

\* the handler of a message of session "X" has been submitted and the
\* session is registered
C5_Witness ==
  /\ lastOp = "on_message.emit"
  /\ lastArg = "X"
  /\ dispatch["A"] # <<>>
  /\ MsgSid(<<dispatch["A"][Len(dispatch["A"])]>>) = "X"
  /\ "X" \in DOMAIN sessions["A"]

\* C10 as stated: after a process applies ovos.session.update_default
\* messages m1 then m2, its default session equals the deserialization of
\* m2's session_data in every field.
C10_LastWriteWins_AsStated ==
  [][ \A i \in 1..MaxQueue :
        OnDefaultSessionUpdate("A", i) =>
          heap'["A"][default_session'["A"]] =
            deserialize(dispatch["A"][i].data["session_data"], cfg["A"], now,
                        uuid4(SM("A"))) ]_vars

\* C10: after a process applies ovos.session.update_default messages m1
\* then m2, its default session equals the deserialization of m2's
\* session_data in every field but session_id, which is "default"; nothing
\* of m1 or of the previous local default session is merged in.
C10_LastWriteWins ==
  [][ \A i \in 1..MaxQueue :
        OnDefaultSessionUpdate("A", i) =>
          heap'["A"][default_session'["A"]] =
            [deserialize(dispatch["A"][i].data["session_data"], cfg["A"], now,
                         uuid4(SM("A")))
               EXCEPT !.session_id = "default"] ]_vars

\* the session of a first update (blacklist "bad", not from the local
\* configuration) is still held by a caller, and a second update, of
\* session id "X" and with nothing set, has just been applied
C10_Witness ==
  /\ lastOp = "on_default_session_update"
  /\ lastArg = "X"
  /\ cfg["A"].blacklisted_skills = <<>>
  /\ held["A"].ref \notin {NoRef, default_session["A"]}
  /\ heap["A"][held["A"].ref].session_id = "default"
  /\ heap["A"][held["A"].ref].blacklisted_skills = <<"bad">>
  /\ heap["A"][default_session["A"]].blacklisted_skills = <<>>
  /\ heap["A"][default_session["A"]].active_skills = <<>>

\* C8 as stated: bound to a bus, every handled ovos.session.sync request
\* causes exactly one emission of ovos.session.update_default whose
\* data.session_data is the serialization of the current default session
\* and whose context is the request's context with source and destination
\* swapped; when no bus is bound, sync emits nothing.
C8_SwapKey(k) ==
  IF k = "source" THEN "destination"
  ELSE IF k = "destination" THEN "source" ELSE k
C8_Swapped(c) == [k \in {C8_SwapKey(j) : j \in DOMAIN c} |-> c[C8_SwapKey(k)]]
C8_Emits(ctx) ==
  /\ bus["A"]
  /\ heap["A"][default_session["A"]].session_id = "default"
  /\ sent'["A"] =
       Append(sent["A"],
              [type |-> "ovos.session.update_default",
               data |-> [session_data |->
                           serialize(heap["A"][default_session["A"]])],
               context |-> ctx])
C8_Unbound ==
  (ResetDefaultSession("A") /\ ~bus["A"]) => sent'["A"] = sent["A"]
C8_SyncReply_AsStated ==
  [][ /\ \A i \in 1..MaxQueue :
           HandleDefaultSessionRequest("A", i) =>
             C8_Emits(C8_Swapped(dispatch["A"][i].context))
      /\ C8_Unbound ]_vars

\* C8: bound to a bus, every handled ovos.session.sync request causes
\* exactly one emission of ovos.session.update_default whose
\* data.session_data is the serialization of the current default session
\* (session_id "default") and whose context is the request's context, with
\* source and destination exchanged only when both are present, and with
\* the serialization of the client's own session added under "session" when
\* the request carries none; when no bus is bound, sync emits nothing.
C8_ReplyContext(c) ==
  LET routed == IF Has(c, "source") /\ Has(c, "destination")
                THEN [c EXCEPT !["source"] = c["destination"],
                               !["destination"] = c["source"]]
                ELSE c
  IN IF Has(c, "session") THEN routed
     ELSE Put(routed, "session",
              serialize(heap["A"][sessions["A"][client_session_id["A"]]]))
C8_SyncReply ==
  [][ /\ \A i \in 1..MaxQueue :
           HandleDefaultSessionRequest("A", i) =>
             C8_Emits(C8_ReplyContext(dispatch["A"][i].context))
      /\ C8_Unbound ]_vars

\* a request routed from "a" to "b" has been answered towards "a"
C8_Witness ==
  /\ lastOp = "handle_default_session_request"
  /\ sent["A"] # <<>>
  /\ LET f == sent["A"][Len(sent["A"])]
     IN /\ f.type = "ovos.session.update_default"
        /\ Has(f.context, "source") /\ f.context["source"] = "b"
        /\ Has(f.context, "destination") /\ f.context["destination"] = "a"

\* a reset without a bus has emitted nothing
C8_WitnessUnbound ==
  /\ lastOp = "reset_default_session"
  /\ ~bus["A"]
  /\ sent["A"] = <<>>

\* C3: under every interleaving of concurrent update(s, make_default=True),
\* update of a session whose id is "default" and reset_default_session
\* calls from different threads, once all calls have returned
\* sessions["default"] is the same object as default_session.
C3_AllReturned == \A t \in Threads : thr[t].pc = "idle"
C3_PairConsistent ==
  C3_AllReturned =>
    /\ "default" \in DOMAIN sessions["A"]
    /\ sessions["A"]["default"] = default_session["A"]

\* C9: if A is bound to the bus and B's client opens a connection, or A
\* calls reset_default_session while B is connected, then, the bus
\* delivering, B's default session eventually has the same serialized
\* content as A's default session had when A emitted
\* ovos.session.update_default.
C9_Contents ==
  {serialize(Session("default", 0, <<>>, EmptyDict, "", FALSE, <<>>, c, 0,
                     "u0")) : c \in Configs}
C9_Emitted(sd) ==
  /\ connected["B"]
  /\ bus["A"]
  /\ \E i \in DOMAIN sent["A"] :
       /\ sent["A"][i].type = "ovos.session.update_default"
       /\ sent["A"][i].data["session_data"] = sd
C9_Converges ==
  \A sd \in C9_Contents :
    C9_Emitted(sd) ~> (serialize(heap["B"][default_session["B"]]) = sd)

\* C11: MessageBusClient.emit sends a message whose context has no
\* "session" key with context.session equal to the serialization of the
\* registry's session for the client's session_id, or of a new Session
\* with that id when the registry has none; a "session" key already in the
\* context is sent unchanged; type, data and the other context keys are
\* sent as given.
C11_Session(m) ==
  IF Has(m.context, "session") THEN m.context["session"]
  ELSE IF client_session_id["A"] \in DOMAIN sessions["A"]
  THEN serialize(heap["A"][sessions["A"][client_session_id["A"]]])
  ELSE serialize(Session(client_session_id["A"], 0, <<>>, EmptyDict, "",
                         FALSE, <<>>, cfg["A"], now, uuid4(SM("A"))))
C11_EmitAttachesSession ==
  [][ \A m \in EmitMessages :
        Emit("A", m) =>
          /\ Len(sent'["A"]) = Len(sent["A"]) + 1
          /\ LET f == sent'["A"][Len(sent'["A"])]
             IN /\ f.type = m.msg_type
                /\ f.data = m.data
                /\ DOMAIN f.context = (DOMAIN m.context) \cup {"session"}
                /\ f.context["session"] = C11_Session(m)
                /\ \A k \in (DOMAIN m.context) \ {"session"} :
                     f.context[k] = m.context[k] ]_vars

\* a client of session "X" has emitted a message without session after the
\* registry lost its entry
C11_Witness ==
  /\ lastOp = "emit"
  /\ lastArg = "<nosession>"
  /\ client_session_id["A"] = "X"
  /\ "X" \notin DOMAIN sessions["A"]
  /\ sent["A"][Len(sent["A"])].context["session"]["session_id"] = "X"

\* a client of session "X" has emitted a message without session while the
\* registry holds a changed session "X"
C11_WitnessRegistered ==
  /\ lastOp = "emit"
  /\ lastArg = "<nosession>"
  /\ client_session_id["A"] = "X"
  /\ "X" \in DOMAIN sessions["A"]
  /\ heap["A"][sessions["A"]["X"]].active_skills # <<>>
  /\ sent["A"][Len(sent["A"])].context["session"]["active_skills"] # <<>>

\* the values of the caller's message and of the derived one
C12_Original == MemMessage(mem, mem.m[1])
C12_Derived == MemMessage(mem', mem'.m2[1])

\* C12: Message.reply builds its context in this order: deep copy of the
\* original context, then extra_context keys written over it, then
\* destination overwritten from new_data["destination"] when that key
\* exists, and finally source and destination exchanged if and only if
\* both keys are present; with only one of the two present nothing is
\* swapped and that key keeps its value.
C12_Before(orig, d, x, k) ==
  IF k = "destination" /\ Has(d, "destination") THEN d["destination"]
  ELSE IF k \in DOMAIN x THEN x[k]
  ELSE orig[k]
C12_Keys(orig, d, x) ==
  (DOMAIN orig) \cup (DOMAIN x)
    \cup (IF Has(d, "destination") THEN {"destination"} ELSE {})
C12_Context(orig, d, x) ==
  LET both == {"source", "destination"} \subseteq C12_Keys(orig, d, x)
  IN [k \in C12_Keys(orig, d, x) |->
        IF both /\ k = "source" THEN C12_Before(orig, d, x, "destination")
        ELSE IF both /\ k = "destination"
        THEN C12_Before(orig, d, x, "source")
        ELSE C12_Before(orig, d, x, k)]
C12_Copied ==
  /\ mem'.m2[1].context \notin DOMAIN mem.ctx
  /\ mem'.ctx[mem'.m2[1].context].session \notin DOMAIN mem.sd
C12_ReplyOrder ==
  [][ \A d \in InData, x \in ExtraContexts :
        Reply("r", d, x) =>
          /\ C12_Derived.msg_type = "r"
          /\ C12_Derived.data = d
          /\ C12_Derived.context = C12_Context(C12_Original.context, d, x)
          /\ C12_Copied ]_vars

\* a reply with data.destination "d" and extra source "x" to a message
\* routed from "a" to "b": destination was overwritten, then exchanged
C12_Witness ==
  /\ lastOp = "reply"
  /\ mem.m2 # <<>>
  /\ LET c == MemContext(mem, mem.m[1].context)
         c2 == MemContext(mem, mem.m2[1].context)
     IN /\ Has(c, "source") /\ c["source"] = "a"
        /\ Has(c, "destination") /\ c["destination"] = "b"
        /\ c2["source"] = "d"
        /\ c2["destination"] = "x"

\* a reply to a message that has a source only: nothing was exchanged
C12_WitnessSingle ==
  /\ lastOp = "reply"
  /\ mem.m2 # <<>>
  /\ MemContext(mem, mem.m[1].context) = [source |-> "a"]
  /\ MemContext(mem, mem.m2[1].context) = [source |-> "a"]

\* C13: each derived message owns its own context: for m2 obtained from m
\* by forward, reply, response or publish, no later change the library
\* makes to m2's context (emit adding "session", from_message adding
\* "lang" in the embedded session) is visible in m.context, and the
\* derivation itself leaves m.msg_type, m.data and m.context unchanged.
C13_Derivation ==
  \/ \E d \in InData : Forward("f", d)
  \/ \E d \in InData, x \in ExtraContexts :
        Reply("r", d, x) \/ Response(d, x) \/ Publish("p", d, x)
C13_OwnContext ==
  [][ (C13_Derivation \/ EmitDerived("A") \/ FromMessageDerived("A")) =>
        /\ mem'.m = mem.m
        /\ MemMessage(mem', mem'.m[1]) = MemMessage(mem, mem.m[1]) ]_vars

\* C14 as stated: forward yields a context equal to the original's; reply
\* and response keep every original key with its value except that source
\* and destination are exchanged; publish keeps every original key with
\* its value except that "target" is removed and source/destination are
\* not exchanged; in reply and publish a key given in extra_context takes
\* the extra_context value.
C14_Exchanged(orig, k) ==
  IF k = "source" /\ Has(orig, "destination") THEN orig["destination"]
  ELSE IF k = "destination" /\ Has(orig, "source") THEN orig["source"]
  ELSE orig[k]
C14_ReplyAsStated(orig, res, x) ==
  /\ \A k \in (DOMAIN orig) \ (DOMAIN x) :
       k \in DOMAIN res /\ res[k] = C14_Exchanged(orig, k)
  /\ \A k \in DOMAIN x : k \in DOMAIN res /\ res[k] = x[k]
C14_PublishAsStated(orig, res, x) ==
  /\ "target" \notin DOMAIN res
  /\ \A k \in (DOMAIN orig) \ ((DOMAIN x) \cup {"target"}) :
       k \in DOMAIN res /\ res[k] = orig[k]
  /\ \A k \in DOMAIN x : k \in DOMAIN res /\ res[k] = x[k]
C14_Forward ==
  \A d \in InData :
    Forward("f", d) => C12_Derived.context = C12_Original.context
C14_KeysSurvive_AsStated ==
  [][ /\ C14_Forward
      /\ \A d \in InData, x \in ExtraContexts :
           /\ (Reply("r", d, x) \/ Response(d, x)) =>
                C14_ReplyAsStated(C12_Original.context, C12_Derived.context, x)
           /\ Publish("p", d, x) =>
                C14_PublishAsStated(C12_Original.context,
                                    C12_Derived.context, x) ]_vars

\* C14: forward yields a context equal to the original's; reply and
\* response keep every original key, and every key other than source and
\* destination has the extra_context value if given there and else the
\* original value, while source and destination are each the other's value
\* after extra_context and data["destination"] were written, when both are
\* present, and that written value otherwise; publish keeps every original
\* key but "target", which is removed even if extra_context gives it, with
\* the extra_context value if given and else the original value, and
\* exchanges nothing.
C14_Reply(orig, res, d, x) ==
  /\ (DOMAIN orig) \cup (DOMAIN x) \subseteq DOMAIN res
  /\ \A k \in (DOMAIN res) \ {"source", "destination"} :
       res[k] = IF k \in DOMAIN x THEN x[k] ELSE orig[k]
  /\ \A k \in (DOMAIN res) \cap {"source", "destination"} :
       LET other == IF k = "source" THEN "destination" ELSE "source"
       IN res[k] = IF other \in DOMAIN res
                   THEN C12_Before(orig, d, x, other)
                   ELSE C12_Before(orig, d, x, k)
C14_Publish(orig, res, x) ==
  /\ DOMAIN res = ((DOMAIN orig) \cup (DOMAIN x)) \ {"target"}
  /\ \A k \in DOMAIN res :
       res[k] = IF k \in DOMAIN x THEN x[k] ELSE orig[k]
C14_KeysSurvive ==
  [][ /\ C14_Forward
      /\ \A d \in InData, x \in ExtraContexts :
           /\ (Reply("r", d, x) \/ Response(d, x)) =>
                C14_Reply(C12_Original.context, C12_Derived.context, d, x)
           /\ Publish("p", d, x) =>
                C14_Publish(C12_Original.context, C12_Derived.context, x) ]_vars

\* a message with an unknown key, a target and both routing keys has been
\* published with an extra key: the unknown key took the extra value, the
\* target is gone, the routing keys are as they were
C14_Witness ==
  /\ lastOp = "publish"
  /\ mem.m2 # <<>>
  /\ Has(MemContext(mem, mem.m[1].context), "target")
  /\ MemContext(mem, mem.m2[1].context) =
       [ident |-> "j", source |-> "a", destination |-> "b"]

\* the response to the same message carries the type with ".response" and
\* the routing keys exchanged
C14_WitnessResponse ==
  /\ lastOp = "response"
  /\ mem.m2 # <<>>
  /\ mem.m2[1].msg_type = "q.response"
  /\ MemContext(mem, mem.m2[1].context) =
       [ident |-> "i", target |-> "t", source |-> "b", destination |-> "a"]

\* C15: Message.deserialize(m.serialize()) == m (same type, data and
\* context) for every Message m with JSON-safe data and context, both when
\* no secret key is configured and when a secret key is configured on both
\* sides.
C15_RoundTrip ==
  [][ \A m \in CodecMessages :
        RoundTrip(m) =>
          /\ io'.result.raised = ""
          /\ io'.result.message = <<m>> ]_vars

\* the frame is plaintext: the JSON text of an object without ciphertext
C16_Plaintext(f) == f.wellformed /\ f.isdict /\ ~Has(f.obj, "ciphertext")
\* the frame is the JSON text of {ciphertext, tag, nonce}
C16_Encrypted(f) == f.wellformed /\ f.isdict /\ Has(f.obj, "ciphertext")
\* the frame does not decrypt under the receiver's key
C16_FailsDecryption(f, ws) ==
  /\ C16_Encrypted(f)
  /\ ws.secret_key # ""
  /\ f.obj["ciphertext"].key # ws.secret_key \/ f.obj["tag"] # "mac"

\* C16: Message.deserialize fails closed on a mode mismatch: with a secret
\* configured and unencrypted traffic disallowed a plaintext frame raises
\* an error; with no secret configured an encrypted frame raises an error;
\* a frame that fails decryption raises an error; in none of these cases
\* does deserialize return a Message.
C16_FailsClosed ==
  [][ \A f \in WireFrames :
        (/\ Deserialize(f)
         /\ \/ websocket.secret_key # "" /\ ~websocket.allow_unencrypted
                 /\ C16_Plaintext(f)
            \/ websocket.secret_key = "" /\ C16_Encrypted(f)
            \/ C16_FailsDecryption(f, websocket))
        => /\ io'.result.raised # ""
           /\ io'.result.message = NoMsg ]_vars

\* the str is not JSON, or it is an encrypted frame that does not decrypt
\* under the receiver's key
C17_Malformed(f, ws) == ~f.wellformed \/ C16_FailsDecryption(f, ws)

\* C17: a malformed inbound frame (JSON decode failure or decryption
\* failure) is dropped by MessageBusClient.on_message: no exception leaves
\* on_message towards the transport's receive loop, no reconnect is
\* triggered (on_error is not called for it), no type-specific handler is
\* dispatched and the session registry is unchanged.
C17_Dropped ==
  [][ /\ \A f \in InboundStr :
           (OnMessageStr("A", f) /\ C17_Malformed(f, websocket)) =>
              /\ ~Escaped'
              /\ dispatch' = dispatch
              /\ sessions' = sessions
              /\ default_session' = default_session
              /\ heap' = heap
      /\ ~OnError("A") ]_vars

\* C18: every MessageBusClient.wait_for_response call eventually returns,
\* with the reply or with None, also when the connection is lost and never
\* re-established after run_forever was started; it never blocks the caller
\* forever.
C18_Returns ==
  \A t \in Threads :
    (waits[t].op = "wait_for_response") ~> (waits[t].op = "")

\* the handlers on the bus are those of the calls in progress
C19_OnlyWaitersListen ==
  listeners = { Handler(t, EndEvent(waits[t].op)) :
                  t \in {u \in Threads : waits[u].op \in WaitOps} }
\* a call without bus or for a session that is not active registers nothing
C19_EarlyReturn ==
  \A t \in Threads, op \in WaitOps, sessid \in {"default", "X"}, active \in BOOLEAN :
    (WaitWhile("A", t, op, sessid, active) /\ (~bus["A"] \/ ~active)) =>
       /\ listeners' = listeners
       /\ waits' = waits
       /\ lastOp' = op \o ".return"
\* a return removes the caller's handler and no other
C19_Return ==
  \A t \in Threads :
    WaitReturn("A", t) =>
      /\ Handler(t, EndEvent(waits[t].op)) \notin listeners'
      /\ listeners' = listeners \ {Handler(t, EndEvent(waits[t].op))}

C19_WitnessEnd ==
  /\ lastOp = "wait_while_recording.return"
  /\ lastArg = "end"
  /\ Cardinality(listeners) = 1

\* the Session the claim describes for a message with a "session" key
C20_Expected(m, c, t, uuid) ==
  LET sd == m.context["session"]
      lang == OrStr(Get(m.context, "lang", ""), Get(m.data, "lang", ""))
  IN deserialize(IF Has(sd, "lang") THEN sd ELSE Put(sd, "lang", lang),
                 c, t, uuid)

\* C20: Session.from_message(m) never raises and always returns a Session:
\* when m.context has a "session" key, the session deserialized from it,
\* with lang taken from m.context.lang or else m.data.lang only when the
\* embedded session has no lang, and with defaults for every other missing
\* key; when there is no "session" key or no message, the SessionManager's
\* current default_session object.
C20_AlwaysASession ==
  [][ \A mo \in WireMessages :
        FromMessageAny("A", mo) =>
          /\ lastOp' = "from_message"
          /\ held'["A"].ref \in DOMAIN heap'["A"]
          /\ IF mo # NoMsg /\ Has(mo[1].context, "session")
             THEN heap'["A"][held'["A"].ref] =
                    C20_Expected(mo[1], cfg["A"], now, uuid4(SM("A")))
             ELSE held'["A"].ref = default_session["A"] ]_vars

\* the fields of the data model that C21 lists
C21_Fields == {"session_id", "lang", "site_id", "active_skills", "utterance_states", "pipeline", "context", "expiration_seconds"}

\* C21: Session.deserialize(s.serialize()) agrees with s on every field of
\* the data model: session_id, lang, site_id, active_skills (with order),
\* utterance_states, pipeline, the intent context, and expiration_seconds;
\* in particular a session with a finite TTL still has that TTL after one
\* serialize/deserialize hop.
C21_RoundTrip ==
  [][ \A s \in BuiltSessions("A") :
        SessionRoundTrip("A", s) =>
          \A f \in C21_Fields : io'.result[f] = s[f] ]_vars

HeldA == heap["A"][held["A"].ref]

C24_Touch ==
  /\ [][ Touch("A") =>
           /\ heap'["A"][held["A"].ref].touch_time = now
           /\ sessions'["A"][HeldA.session_id] = held["A"].ref
           /\ ~expired(heap'["A"][held["A"].ref], now) ]_vars
  /\ [][ (held["A"].ref # NoRef /\ held'["A"].ref = held["A"].ref
            /\ heap'["A"][held["A"].ref].touch_time # HeldA.touch_time)
           => lastOp' = "touch" ]_vars
  /\ [][ (Expired("A") /\ HeldA.expiration_seconds >= 0
            /\ now - HeldA.touch_time <= HeldA.expiration_seconds)
           => lastArg' = "False" ]_vars

\* the default session, built at time 0 with expiration_seconds = 0, has been
\* touched at time 1, when it was expired
C24_Witness ==
  /\ lastOp = "touch"
  /\ held["A"].ref = default_session["A"]
  /\ HeldA.expiration_seconds = 0
  /\ HeldA.touch_time = 1 /\ now = 1

\* the skill ids of a list of active skills, in order
ActiveIds(act) == [i \in DOMAIN act |-> act[i][1]]

\* C25: starting from an empty active_skills list, after any sequence of
\* activate_skill and deactivate_skill calls every skill id occurs at most
\* once in active_skills; right after activate_skill(id), id is at index 0
\* and the other skills keep their relative order; is_active(id) is true
\* exactly when id occurs in active_skills.
C25_ActiveSkills ==
  /\ [](\A r \in DOMAIN heap["A"] :
          \A i, j \in DOMAIN heap["A"][r].active_skills :
             heap["A"][r].active_skills[i][1] = heap["A"][r].active_skills[j][1]
               => i = j)
  /\ [][ \A k \in SkillIds :
           ActivateSkill("A", k) =>
             LET new == ActiveIds(heap'["A"][held["A"].ref].active_skills)
             IN /\ new # <<>> /\ new[1] = k
                /\ Tail(new) = SelectSeq(ActiveIds(HeldA.active_skills),
                                         LAMBDA x : x # k) ]_vars
  /\ [][ \A k \in SkillIds :
           IsActive("A", k) =>
             ((lastOp' = "is_active:True") <=>
                (\E i \in DOMAIN HeldA.active_skills :
                   HeldA.active_skills[i][1] = k))
             /\ lastOp' \in {"is_active:True", "is_active:False"} ]_vars

\* sk1 has been activated at time 1, in front of sk3 and sk2 that were
\* activated at time 0
C25_Witness ==
  /\ lastOp = "activate_skill"
  /\ held["A"].ref # NoRef
  /\ ActiveIds(HeldA.active_skills) = <<"sk1", "sk3", "sk2">>
  /\ HeldA.active_skills[1][2] = 1
  /\ HeldA.active_skills[2][2] = 0

\* C26: Session.deactivate_skill(id) removes id from active_skills when it
\* is present and is a no-op when it is not: for an id that is not active,
\* the session's active_skills and touch_time and the SessionManager registry
\* are all left unchanged.
C26_NoOp ==
  [][ \A k \in SkillIds :
        DeactivateSkill("A", k) =>
          IF is_active(HeldA, k)
          THEN ~is_active(heap'["A"][held["A"].ref], k)
          ELSE /\ heap'["A"][held["A"].ref].active_skills = HeldA.active_skills
               /\ heap'["A"][held["A"].ref].touch_time = HeldA.touch_time
               /\ sessions'["A"] = sessions["A"]
               /\ default_session'["A"] = default_session["A"] ]_vars

\* the (record, argument) positions within the first n records whose value
\* is a Message
MessageArgs(callers, n) ==
  {ij \in (1..Len(callers)) \X (1..2) :
     /\ ij[1] <= n
     /\ ij[2] <= Len(callers[ij[1]].args)
     /\ Has(callers[ij[1]].locals, callers[ij[1]].args[ij[2]])
     /\ IsMessage(callers[ij[1]].locals[callers[ij[1]].args[ij[2]]])}

\* C27: dig_for_message(max_records) looks only at the first max_records
\* caller frames, innermost first, and returns the first named argument, in
\* declaration order, whose value is a Message; frames without named
\* arguments and arguments that are not Messages are skipped; it returns
\* None, never raising, when no such argument exists within the bound, even
\* if a frame further out holds a Message.
C27_Dig ==
  [][ \A callers \in Stacks, n \in 0..MaxFrames :
        Dig(callers, n) =>
          LET hits == MessageArgs(callers, n)
              first == CHOOSE ij \in hits :
                         \A kl \in hits : ij[1] < kl[1] \/ (ij[1] = kl[1] /\ ij[2] <= kl[2])
          IN /\ io'.result.raised = ""
             /\ io'.result.ret =
                  IF hits = {} THEN JsonNull
                  ELSE callers[first[1]].locals[callers[first[1]].args[first[2]]] ]_vars

\* the frame stack of the context of process A
StackA == Context("A").frame_stack

\* C28: IntentContextManager.inject_context(entity, metadata): when metadata
\* is non-empty and every key of it is present with an equal value in the top
\* frame's metadata, the entity is appended to the top frame, the number of
\* frames is unchanged and no existing metadata value of that frame is
\* changed; in every other case (empty or missing metadata, differing
\* metadata, empty stack) exactly one new frame holding only this entity and
\* a copy of metadata is inserted at index 0 and all older frames are
\* unchanged.
C28_Inject ==
  [][ \A entity \in {RedEntity, GreenEntity}, metadata \in Metadatas :
        InjectContext("A", entity, metadata) =>
          LET new == heap'["A"][default_session["A"]].context.frame_stack
          IN IF /\ metadata # EmptyDict
                /\ StackA # <<>>
                /\ \A k \in DOMAIN metadata :
                      /\ k \in DOMAIN StackA[1][1].metadata
                      /\ StackA[1][1].metadata[k] = metadata[k]
             THEN /\ Len(new) = Len(StackA)
                  /\ new[1][1].entities = Append(StackA[1][1].entities, entity)
                  /\ \A k \in DOMAIN StackA[1][1].metadata :
                        /\ k \in DOMAIN new[1][1].metadata
                        /\ new[1][1].metadata[k] = StackA[1][1].metadata[k]
                  /\ Tail(new) = Tail(StackA)
             ELSE /\ Len(new) = Len(StackA) + 1
                  /\ new[1][1].entities = <<entity>>
                  /\ new[1][1].metadata = metadata
                  /\ Tail(new) = StackA ]_vars

\* C29: IntentContextManager.remove_context(context_id) removes from the
\* frame stack the frames whose first entity's data matches context_id and
\* keeps every other frame, in the same order.
C29_Remove ==
  [][ \A context_id \in {"color", "col", "size"} :
        RemoveContext("A", context_id) =>
          heap'["A"][default_session["A"]].context.frame_stack =
            SelectIdx(StackA,
                      {i \in DOMAIN StackA :
                         ~data_contains(StackA[i][1].entities[1], context_id)},
                      1) ]_vars

\* the tag of an entity: its data when that is a str, the tag of its first
\* (value, tag) pair when it is a list
Tag(entity) ==
  IF Has(entity["data"], "str") THEN entity["data"]["str"]
  ELSE entity["data"]["list"][1][2]

\* the entities of the frames younger than the timeout, newest frame first
RECURSIVE FreshEntities(_)
FreshEntities(frame_stack) ==
  IF frame_stack = <<>> THEN <<>>
  ELSE (IF now - frame_stack[1][2] < Context("A").timeout
        THEN frame_stack[1][1].entities ELSE <<>>)
       \o FreshEntities(Tail(frame_stack))

\* C30: IntentContextManager.get_context(missing_entities=L): for every key
\* k that L lists once and for which a frame younger than the timeout holds
\* an entity tagged k, the result holds exactly one entity for k, the first
\* one in newest-first order; the result never holds more than one entity
\* per listed key and holds none for keys that are not listed.
C30_GetContext ==
  [][ \A L \in MissingEntities \ {<<>>} :
        GetContext("A", 0, L) =>
          LET fresh == FreshEntities(StackA)
              res == io'.result.ret
          IN /\ io'.result.raised = ""
             /\ \A j \in DOMAIN L :
                  LET at == {i \in DOMAIN fresh : Tag(fresh[i]) = L[j]}
                      hits == {i \in DOMAIN res : Tag(res[i]) = L[j]}
                  IN /\ Cardinality(hits) <= 1
                     /\ at # {} =>
                          \E i \in hits :
                            res[i]["key"] = fresh[CHOOSE a \in at : \A b \in at : a <= b]["key"]
             /\ \A i \in DOMAIN res : \E j \in DOMAIN L : Tag(res[i]) = L[j] ]_vars

\* the context of process A without the frames whose age is at least the
\* timeout
FreshContext ==
  [Context("A") EXCEPT !.frame_stack =
     SelectIdx(@, {i \in DOMAIN @ : now - @[i][2] < Context("A").timeout}, 1)]

FrameOf(key) ==
  CHOOSE i \in DOMAIN StackA :
    /\ \E j \in DOMAIN StackA[i][1].entities : StackA[i][1].entities[j]["key"] = key
    /\ \A h \in 1..(i - 1) :
         \A j \in DOMAIN StackA[h][1].entities : StackA[h][1].entities[j]["key"] # key

\* the origin of a frame: that of its last entity
FrameOrigin(i) == StackA[i][1].entities[Len(StackA[i][1].entities)]["origin"]

\* C32: in the entities collected by get_context, the confidence divisor
\* never decreases with frame position: for two stored entities with equal
\* confidence, the one taken from a newer (shallower) frame is returned with
\* a confidence greater than or equal to the one taken from an older (deeper)
\* frame.
C32_Monotone ==
  [][ lastOp' = "get_context" =>
        /\ io'.result.raised = ""
        /\ \A a, b \in DOMAIN io'.result.ret :
             LET ea == io'.result.ret[a]
                 eb == io'.result.ret[b]
             IN (FrameOf(ea["key"]) <= FrameOf(eb["key"])
                   /\ ea["confidence"].value = eb["confidence"].value)
                  => /\ ea["confidence"].over <= eb["confidence"].over
                     /\ ea["confidence"].value * eb["confidence"].over
                          >= eb["confidence"].value * ea["confidence"].over ]_vars

\* get_context has returned entities of three frames, the last with a
\* larger divisor than the first
C32_Witness ==
  /\ lastOp = "get_context"
  /\ Len(StackA) = 3
  /\ Len(io.result.ret) = 3
  /\ io.result.ret[1]["confidence"].over < io.result.ret[3]["confidence"].over

\* C33: in get_context the confidence of an entity is its stored confidence
\* divided by (2 + depth), where depth is 0 for the newest frame and grows by
\* one exactly when the origin changes from one frame to the next:
\* consecutive frames with the same non-empty origin get the same divisor,
\* and a frame whose origin differs from that of the frame before it gets a
\* divisor larger by one.
C33_Depth ==
  [][ lastOp' = "get_context" =>
        \A a, b \in DOMAIN io'.result.ret :
          LET ea == io'.result.ret[a]
              eb == io'.result.ret[b]
              fa == FrameOf(ea["key"])
              fb == FrameOf(eb["key"])
          IN /\ ea["confidence"].value = 1
             /\ fa = 1 => ea["confidence"].over = 2
             /\ (fb = fa + 1 /\ FrameOrigin(fa) = FrameOrigin(fb) /\ FrameOrigin(fa) # "")
                  => eb["confidence"].over = ea["confidence"].over
             /\ (fb = fa + 1 /\ FrameOrigin(fa) # FrameOrigin(fb))
                  => eb["confidence"].over = ea["confidence"].over + 1 ]_vars

\* C34: a Session constructed with expiration_seconds = N keeps exactly that
\* TTL for every N >= 0, including N = 0: Session(expiration_seconds=0) is
\* expired once any positive whole second has elapsed since its last touch.
C34_KeepsTTL ==
  [][ \A N \in {0, 1} :
        NewSession("A", "X", N) =>
          /\ heap'["A"][held'["A"].ref].expiration_seconds = N
          /\ N = 0 => expired(heap'["A"][held'["A"].ref], now + 1) ]_vars

\* the positions (event, index) of the schedule whose time has come
Due == {x \in (DOMAIN mem.events) \X (1..(MaxEvents + 1)) : x[2] <= Len(mem.events[x[1]]) /\ mem.events[x[1]][x[2]][1] <= now}

\* the entries of a list from index i on that repeat
RECURSIVE DueRepeating(_, _)
DueRepeating(e, i) ==
  IF i > Len(e) THEN <<>>
  ELSE (IF e[i][1] <= now /\ e[i][2] # 0 THEN <<e[i]>> ELSE <<>>) \o DueRepeating(e, i + 1)

\* the entries of a list from index i on whose time is in the future
RECURSIVE Future(_, _)
Future(e, i) ==
  IF i > Len(e) THEN <<>>
  ELSE (IF e[i][1] > now THEN <<e[i]>> ELSE <<>>) \o Future(e, i + 1)

\* C35: EventScheduler.check_state: every scheduled entry whose time is not
\* later than the current time is emitted on the bus exactly once as
\* Message(event, data, context); a non-repeating entry is then no longer
\* scheduled, a repeating entry is scheduled again exactly once at a time
\* that is not in the past; entries whose time is still in the future are
\* neither emitted nor changed, and after check_state no event name maps to
\* an empty list.
C35_CheckState ==
  /\ [][ CheckState =>
           /\ \A x \in Due :
                LET m == Message(x[1], mem.events[x[1]][x[2]][3], mem.events[x[1]][x[2]][4])
                IN Cardinality({k \in DOMAIN mem'.pending_messages : mem'.pending_messages[k] = m})
                     = Cardinality({y \in Due : Message(y[1], mem.events[y[1]][y[2]][3], mem.events[y[1]][y[2]][4]) = m})
           /\ Len(mem'.pending_messages) = Cardinality(Due)
           /\ \A event \in DOMAIN mem.events :
                LET fut == Future(mem.events[event], 1)
                    rpt == DueRepeating(mem.events[event], 1)
                    new == mem'.events[event]
                IN /\ Len(new) = Len(fut) + Len(rpt)
                   /\ SubSeq(new, 1, Len(fut)) = fut
                   /\ \A i \in DOMAIN rpt :
                        /\ new[Len(fut) + i][1] >= now
                        /\ new[Len(fut) + i][2] = rpt[i][2]
                        /\ new[Len(fut) + i][3] = rpt[i][3]
                        /\ new[Len(fut) + i][4] = rpt[i][4] ]_vars
  /\ [][ EmitPending =>
           /\ mem'.emitted = mem.pending_messages
           /\ \A event \in DOMAIN mem'.events : mem'.events[event] # <<>> ]_vars

\* check_state has emitted two messages and has scheduled a repeating entry
\* again, for the next second
C35_Witness ==
  /\ lastOp = "emit"
  /\ Len(mem.emitted) = 2
  /\ \E event \in DOMAIN mem.events :
       \E i \in DOMAIN mem.events[event] :
          mem.events[event][i][2] # 0 /\ mem.events[event][i][1] = now + 1

\* C36: EventScheduler.schedule_event with a repeat interval is discarded
\* only when the event name has at least one pending entry at that moment;
\* under every interleaving with the scheduler thread's check_state (which
\* runs clear_empty in a separate critical section), a repeating request for
\* a name that has no pending entry is added to the schedule, and every
\* request without repeat appends exactly one entry.
C36_Schedule ==
  [][ \A i \in DOMAIN EventNames, sched_time \in {now - 1, now, now + 1}, repeat \in {0, 1, -1} :
        ScheduleEvent(EventNames[i], sched_time, repeat, [k |-> "v"]) =>
          LET event == EventNames[i]
              old == Get(mem.events, event, <<>>)
          IN IF repeat # 0 /\ old # <<>>
             THEN mem'.events = mem.events
             ELSE /\ Has(mem'.events, event)
                  /\ mem'.events[event] = Append(old, <<sched_time, repeat, [k |-> "v"], EmptyDict>>)
                  /\ \A other \in (DOMAIN mem.events) \ {event} :
                       Has(mem'.events, other) /\ mem'.events[other] = mem.events[other] ]_vars

\* C38: an EventScheduler created with autostart=True never has its scheduler
\* thread read the stop flag before the constructor has created it: under
\* every interleaving of the constructing thread and the started thread, the
\* run loop's first check of _stopping happens after _stopping exists, so the
\* thread keeps polling until shutdown.
C38_StopFlagExists ==
  /\ [][ RunWait => mem.stopping # "none" ]_vars
  /\ [](mem # NoMem => mem.thread \notin {"dead", "stopped"})

\* C37: EventSchedulerInterface.update_scheduled_event(name, data) replaces
\* the data of a scheduled event: once its message is delivered on a bus
\* shared with an EventScheduler that has the event scheduled, the first
\* pending entry of the unique name carries the new data, with its time,
\* repeat and context unchanged.
C37_Updates ==
  [][ \A name \in IfaceNames, data \in IfaceData :
        LET event == create_unique_name(SkillId, name)
        IN (/\ lastOp' = "deliver"
            /\ mem.queue # <<>>
            /\ Head(mem.queue) = update_scheduled_event(SkillId, name, data)
            /\ Len(Get(mem.events, event, <<>>)) > 0)
           => /\ Has(mem'.events, event)
              /\ mem'.events[event][1] =
                   <<mem.events[event][1][1], mem.events[event][1][2], data,
                     mem.events[event][1][4]>> ]_vars

C40_StaysSpeaking ==
  [][ (/\ Has(sessions["A"], "X")
       /\ heap["A"][sessions["A"]["X"]].is_speaking
       /\ lastOp' \in {"on_message", "get"}
       /\ lastArg' = "X")
      => (/\ Has(sessions'["A"], "X")
          /\ heap'["A"][sessions'["A"]["X"]].is_speaking) ]_vars

====
